---- MODULE Spec2Model ----
(***************************************************************************)
(* A model of the analysis pipeline of rca (Rust Code Analyzer):           *)
(*   - dependencies.rs : update_and_install_dependencies and its phases    *)
(*   - target.rs       : TargetPath::new                                   *)
(*   - download.rs     : create_path_from_repo_name, download_from_git     *)
(*   - quality.rs      : parse_sloc_json, the coverage parser,             *)
(*                       generate_quality_report, write_json_to_file       *)
(*   - command.rs      : the command wrappers                              *)
(*   - main.rs         : main, download_dependencies, do_action            *)
(* Each part has its own specification (SpecDeps, SpecTarget, SpecSloc,    *)
(* SpecCov, SpecReport, SpecMain); the variables of the parts a            *)
(* specification does not run stay at their idle values.                   *)
(***************************************************************************)
EXTENDS Integers, Sequences, FiniteSets, TLC

VARIABLES
    \* ---- dependencies.rs
    pc,               \* position inside update_and_install_dependencies
    idx,              \* index of the item the current phase loop is at
    onPath,           \* the names `which` finds on the search path
    dependency_error, \* Vec<DependencyError> of update_and_install_dependencies
    install_failed,   \* Vec<String> of the running install phase / not_installed
    log,              \* every probe and every command issued, in order
    phases,           \* the phases entered, in order
    phaseRes,         \* what each phase function returned
    probedAbsent,     \* items a probe of this call reported absent
    result,           \* the value update_and_install_dependencies returned
    \* ---- target.rs, download.rs, main.rs: download_repository
    target,           \* the command-line argument, a sequence of characters
    pathExists,       \* whether PathBuf::from(target) exists
    cwdDirs,          \* the names of the entries of the current directory
    tpc,              \* position inside download_repository
    targetPath,       \* what TargetPath::new returned
    fsProbes,         \* the filesystem queries TargetPath::new made
    dl,               \* the calls of download_from_git, in order
    workdir,          \* the path download_repository returned
    \* ---- quality.rs: parse_sloc_json
    json,             \* the input Map<String, Value>, as its entries in order
    spc,              \* position of the parse
    sloc,             \* what parse_sloc_json returned
    \* ---- quality.rs: search_code_coverage_json
    tarpaulin,        \* what execute_command_return gave for `cargo tarpaulin`
    cpc,              \* position inside search_code_coverage_json
    parsed_output,    \* what parse_tarpaulin_output returned
    uncovered,        \* the sections before the "Total Lines" section
    total,            \* the last section
    total_cov,        \* what parse_total_coverage_data returned
    files_cov,        \* what parse_each_file_uncovered_lines returned
    code_coverage,    \* the Coverage built so far, at the end the result
    \* ---- quality.rs: generate_quality_report, write_json_to_file
    entry,            \* the function that was called
    rpc,              \* position inside it
    tokei,            \* what execute_command_no_path_return gave for `tokei`
    quality,          \* the Quality built from the two fragments
    wname,            \* write_json_to_file: the argument `name`
    wcontent,         \* write_json_to_file: the argument `content`
    fs0,              \* the files of the current directory before the call
    fs,               \* the files of the current directory
    ret,              \* what the called function returned
    \* ---- main.rs: main, download_dependencies, do_action
    mpc,              \* position inside main
    declined,         \* whether the user answered "n" to the dependency prompt
    queue,            \* the commands of the chosen menu entry still to be run
    lastCmd,          \* the last external command main's tools asked for
    mret              \* what main returned

depVars == <<pc, idx, onPath, dependency_error, install_failed, log, phases,
             phaseRes, probedAbsent, result>>

tgtVars == <<target, pathExists, cwdDirs, tpc, targetPath, fsProbes, dl, workdir>>

slocVars == <<json, spc, sloc>>

covVars == <<tarpaulin, cpc, parsed_output, uncovered, total, total_cov,
             files_cov, code_coverage>>

repVars == <<entry, rpc, tokei, quality, wname, wcontent, fs0, fs, ret>>

mainVars == <<mpc, declined, queue, lastCmd, mret>>

vars == <<depVars, tgtVars, slocVars, covVars, repVars, mainVars>>

notDepVars == <<tgtVars, slocVars, covVars, repVars, mainVars>>
notTgtVars == <<depVars, slocVars, covVars, repVars, mainVars>>
notSlocVars == <<depVars, tgtVars, covVars, repVars, mainVars>>
notCovVars == <<depVars, tgtVars, slocVars, repVars, mainVars>>
notRepVars == <<depVars, tgtVars, slocVars, covVars, mainVars>>
notMainVars == <<depVars, tgtVars, slocVars, covVars, repVars>>

(***************************************************************************)
(* Sequence helpers                                                        *)
(***************************************************************************)
Range(s) == {s[i] : i \in 1..Len(s)}

RECURSIVE SetToSeqIn(_, _)
\* the elements of list `l` that are in set `S`, in list order
SetToSeqIn(l, S) ==
    IF l = <<>> THEN <<>>
    ELSE (IF Head(l) \in S THEN <<Head(l)>> ELSE <<>>) \o SetToSeqIn(Tail(l), S)

(***************************************************************************)
(* dependencies.rs: the item lists                                         *)
(***************************************************************************)
RUSTUP_COMPONENT_LIST == <<"cargo-clippy", "rustfmt">>

SYSTEM_BINARY_LIST == <<"git">>

CARGO_SUBCOMMAND_LIST ==
    <<"cargo-outdated", "cargo-audit", "cargo-tarpaulin", "cargo-crev",
      "cargo-install-update", "cargo-expand", "cargo-modules", "tokei">>

\* The subcommand loop is walked over the first MaxSubcommands entries.
MaxSubcommands == 3

Subcommands ==
    SubSeq(CARGO_SUBCOMMAND_LIST, 1,
           IF MaxSubcommands < Len(CARGO_SUBCOMMAND_LIST)
           THEN MaxSubcommands ELSE Len(CARGO_SUBCOMMAND_LIST))

AllItems == Range(RUSTUP_COMPONENT_LIST) \cup Range(Subcommands)
              \cup Range(SYSTEM_BINARY_LIST)

(***************************************************************************)
(* command.rs: execute_command_no_path.  The process layer answers with    *)
(* one of three outcomes: the process could not be launched (io::Error),   *)
(* it ran and exited with status 0, it ran and exited with another status. *)
(***************************************************************************)
Outcomes == {"io_err", "exit_ok", "exit_fail"}

\* execute_command_no_path with the exit status looked at
execute_command_no_pathChecksStatus(outcome) ==
    IF outcome = "exit_ok" THEN "Ok" ELSE "Err"

\* Err(error) when Command::output() fails, Ok(()) otherwise: the exit status
\* is printed at most, never looked at.
execute_command_no_path(outcome) ==
    IF outcome = "io_err" THEN "Err" ELSE "Ok"

\* fn is_installed(name): which::which(name).is_ok()
is_installedAlwaysAbsent(name, path) == FALSE
is_installed(name, path) == name \in path

(***************************************************************************)
(* Per-item install arguments                                              *)
(***************************************************************************)
\* component.split('-').collect::<Vec<&str>>()[1]
SecondDashPart(component) ==
    CASE component = "cargo-clippy" -> "clippy"
      [] OTHER -> component

rustup_args(component) ==
    IF component = "rustfmt"
    THEN <<"component", "add", component, "--toolchain", "stable">>
    ELSE <<"component", "add", SecondDashPart(component)>>

cargo_args(subcommand) ==
    IF subcommand = "cargo-outdated" THEN <<"install", "--locked", subcommand>>
    ELSE IF subcommand = "cargo-install-update" THEN <<"install", "cargo-update">>
    ELSE IF subcommand = "cargo-modules"
         THEN <<"install", subcommand, "--version", "0.5.14">>
    ELSE <<"install", subcommand>>

(***************************************************************************)
(* Events of the log                                                       *)
(***************************************************************************)
ProbeEv(item, found, wasOnPath) ==
    [ev |-> "probe", item |-> item, found |-> found, name |-> "which",
     args |-> <<item>>, outcome |-> "none", wasOnPath |-> wasOnPath]

ExecEv(name, args, item, outcome, wasOnPath) ==
    [ev |-> "exec", item |-> item, found |-> FALSE, name |-> name,
     args |-> args, outcome |-> outcome, wasOnPath |-> wasOnPath]

(***************************************************************************)
(* DependencyError values and phase results                                *)
(***************************************************************************)
OkRes == [tag |-> "Ok", items |-> <<>>]
NotRun == [tag |-> "NotRun", items |-> <<>>]
UpdateFailed == [tag |-> "UpdateFailed", items |-> <<>>]
ComponentInstallFailed(l) == [tag |-> "ComponentInstallFailed", items |-> l]
SubcommandsInstallFailed(l) == [tag |-> "SubcommandsInstallFailed", items |-> l]
SystemBinariesNotInstalled(l) == [tag |-> "SystemBinariesNotInstalled", items |-> l]

PhaseOrder == <<"update", "components", "subcommands", "binaries">>

\* `if let Err(error) = phase() { dependency_error.push(error); }`
PushKeepLast(vec, res) == IF res.tag = "Ok" THEN vec ELSE <<res>>
PushIfErr(vec, res) == IF res.tag = "Ok" THEN vec ELSE Append(vec, res)

\* The statement after a phase is the next phase, whatever the phase returned.
AfterPhaseFailFast(phase, res) ==
    IF res.tag # "Ok" THEN "check"
    ELSE CASE phase = "update" -> "components"
           [] phase = "components" -> "subcommands"
           [] phase = "subcommands" -> "binaries"
           [] OTHER -> "check"
AfterPhase(phase, res) ==
    CASE phase = "update" -> "components"
      [] phase = "components" -> "subcommands"
      [] phase = "subcommands" -> "binaries"
      [] OTHER -> "check"

\* match install_failed.is_empty() { true => Ok(()), false => Err(..) }
ListResult(list, kind) ==
    IF list = <<>> THEN OkRes
    ELSE CASE kind = "components" -> ComponentInstallFailed(list)
           [] kind = "subcommands" -> SubcommandsInstallFailed(list)
           [] OTHER -> SystemBinariesNotInstalled(list)

EnterPhase(next) == IF next = "check" THEN phases ELSE Append(phases, next)

(***************************************************************************)
(* dependencies.rs: the actions                                            *)
(***************************************************************************)
IdleTarget ==
    /\ target = <<>>
    /\ pathExists = FALSE
    /\ cwdDirs = {}
    /\ tpc = "idle"
    /\ targetPath = [tag |-> "None", val |-> <<>>]
    /\ fsProbes = 0
    /\ dl = <<>>
    /\ workdir = [tag |-> "None", val |-> <<>>]

NoSloc == [tag |-> "None", language_info |-> <<>>, code |-> 0, comments |-> 0,
           inaccurate |-> FALSE]

IdleSloc ==
    /\ json = <<>>
    /\ spc = "idle"
    /\ sloc = NoSloc

\* an f64: finite values are (-1)^neg * mant * 10^exp with mant not a
\* multiple of ten (zero is mant 0, exp 0), the others are NaN and the two
\* infinities
F64(kind, neg, mant, exp) == [kind |-> kind, neg |-> neg, mant |-> mant, exp |-> exp]
Zero == F64("finite", FALSE, 0, 0)

Coverage(tag, file_coverage, pct, num_covered_lines, total_lines) ==
    [tag |-> tag, file_coverage |-> file_coverage,
     total_coverage_percentage |-> pct,
     num_covered_lines |-> num_covered_lines, total_lines |-> total_lines]

NoCoverage == Coverage("None", <<>>, Zero, 0, 0)

NoOutput == [tag |-> "None", text |-> <<>>]

NoFiles == [tag |-> "None", v |-> <<>>]

IdleCov ==
    /\ tarpaulin = NoOutput
    /\ cpc = "idle"
    /\ parsed_output = <<>>
    /\ uncovered = <<>>
    /\ total = <<>>
    /\ total_cov = NoCoverage
    /\ files_cov = NoFiles
    /\ code_coverage = NoCoverage

NoRet == [tag |-> "None", err |-> ""]

NoQuality == [tag |-> "None"]

IdleReport ==
    /\ entry = "none"
    /\ rpc = "idle"
    /\ tokei = NoOutput
    /\ quality = NoQuality
    /\ wname = <<>>
    /\ wcontent = NoQuality
    /\ fs0 = <<>>
    /\ fs = <<>>
    /\ ret = NoRet

NoCmd == [wrapper |-> "none", name |-> "", arg |-> "", path |-> <<>>,
          launch |-> "", returned |-> NoRet, got |-> NoRet]

IdleMain ==
    /\ mpc = "idle"
    /\ declined = FALSE
    /\ queue = <<>>
    /\ lastCmd = NoCmd
    /\ mret = NoRet

InitDeps ==
    /\ IdleTarget
    /\ IdleSloc
    /\ IdleCov
    /\ IdleReport
    /\ IdleMain
    /\ pc = "update"
    /\ idx = 1
    /\ onPath \in SUBSET AllItems
    /\ dependency_error = <<>>
    /\ install_failed = <<>>
    /\ log = <<>>
    /\ phases = <<"update">>
    /\ phaseRes = [p \in Range(PhaseOrder) |-> NotRun]
    /\ probedAbsent = {}
    /\ result = NotRun

\* update with the result of the first command only
updateFirstOnly(o1, o2) ==
    IF execute_command_no_path(o1) = "Err" THEN UpdateFailed ELSE OkRes

\* pub fn update(): both commands run, then the two results are looked at.
update(o1, o2) ==
    IF execute_command_no_path(o1) = "Err" \/ execute_command_no_path(o2) = "Err"
    THEN UpdateFailed ELSE OkRes

Update ==
    /\ pc = "update"
    /\ \E o1 \in Outcomes, o2 \in Outcomes :
         LET res == update(o1, o2) IN
         /\ log' = log \o <<ExecEv("rustup", <<"self", "update">>, "rustup", o1, FALSE),
                            ExecEv("rustup", <<"update">>, "rustup", o2, FALSE)>>
         /\ phaseRes' = [phaseRes EXCEPT !["update"] = res]
         /\ dependency_error' = PushIfErr(dependency_error, res)
         /\ pc' = AfterPhase("update", res)
         /\ phases' = EnterPhase(AfterPhase("update", res))
    /\ idx' = 1
    /\ install_failed' = <<>>
    /\ UNCHANGED <<onPath, probedAbsent, result>>
    /\ UNCHANGED notDepVars

\* One iteration of the loop of install_rustup_components or
\* install_cargo_subcommands over `list`, installing with `cmd`.
InstallStep(list, cmd, argsOf) ==
    LET item == list[idx]
        found == is_installed(item, onPath)
    IN  /\ idx' = idx + 1
        /\ IF found
           THEN /\ log' = Append(log, ProbeEv(item, found, item \in onPath))
                /\ UNCHANGED <<onPath, install_failed, probedAbsent>>
           ELSE \E o \in Outcomes :
                /\ log' = log \o <<ProbeEv(item, found, item \in onPath),
                                   ExecEv(cmd, argsOf, item, o, item \in onPath)>>
                /\ install_failed' =
                       IF execute_command_no_path(o) = "Err"
                       THEN Append(install_failed, item) ELSE install_failed
                /\ onPath' = IF o = "exit_ok" THEN onPath \cup {item} ELSE onPath
                /\ probedAbsent' = probedAbsent \cup {item}
        /\ UNCHANGED <<pc, dependency_error, phases, phaseRes, result>>
        /\ UNCHANGED notDepVars

\* The end of a phase function and the caller's `if let Err`.
PhaseEnd(phase) ==
    LET res == ListResult(install_failed, phase) IN
    /\ phaseRes' = [phaseRes EXCEPT ![phase] = res]
    /\ dependency_error' = PushIfErr(dependency_error, res)
    /\ pc' = AfterPhase(phase, res)
    /\ phases' = EnterPhase(AfterPhase(phase, res))
    /\ idx' = 1
    /\ install_failed' = <<>>
    /\ UNCHANGED <<onPath, log, probedAbsent, result>>
    /\ UNCHANGED notDepVars

ComponentStep ==
    /\ pc = "components"
    /\ idx <= Len(RUSTUP_COMPONENT_LIST)
    /\ InstallStep(RUSTUP_COMPONENT_LIST, "rustup",
                   rustup_args(RUSTUP_COMPONENT_LIST[idx]))

ComponentsEnd ==
    /\ pc = "components"
    /\ idx > Len(RUSTUP_COMPONENT_LIST)
    /\ PhaseEnd("components")

SubcommandStep ==
    /\ pc = "subcommands"
    /\ idx <= Len(Subcommands)
    /\ InstallStep(Subcommands, "cargo", cargo_args(Subcommands[idx]))

SubcommandsEnd ==
    /\ pc = "subcommands"
    /\ idx > Len(Subcommands)
    /\ PhaseEnd("subcommands")

\* fn check_system_binaries(): probe only, nothing is installed.
BinaryStep ==
    /\ pc = "binaries"
    /\ idx <= Len(SYSTEM_BINARY_LIST)
    /\ LET binary == SYSTEM_BINARY_LIST[idx]
           found == is_installed(binary, onPath)
       IN  /\ log' = Append(log, ProbeEv(binary, found, binary \in onPath))
           /\ install_failed' =
                  IF ~found THEN Append(install_failed, binary) ELSE install_failed
           /\ probedAbsent' =
                  IF ~found THEN probedAbsent \cup {binary} ELSE probedAbsent
    /\ idx' = idx + 1
    /\ UNCHANGED <<pc, onPath, dependency_error, phases, phaseRes, result>>
    /\ UNCHANGED notDepVars

BinariesEnd ==
    /\ pc = "binaries"
    /\ idx > Len(SYSTEM_BINARY_LIST)
    /\ PhaseEnd("binaries")

\* [5/5]: match dependency_error.is_empty()
CheckErrors ==
    /\ pc = "check"
    /\ result' = IF dependency_error = <<>>
                 THEN [tag |-> "Ok", items |-> <<>>]
                 ELSE [tag |-> "Err", items |-> dependency_error]
    /\ pc' = "done"
    /\ UNCHANGED <<idx, onPath, dependency_error, install_failed, log, phases,
                   phaseRes, probedAbsent>>
    /\ UNCHANGED notDepVars

update_and_install_dependencies ==
    \/ Update
    \/ ComponentStep
    \/ ComponentsEnd
    \/ SubcommandStep
    \/ SubcommandsEnd
    \/ BinaryStep
    \/ BinariesEnd
    \/ CheckErrors

NextDeps == update_and_install_dependencies

SpecDeps == InitDeps /\ [][NextDeps]_vars

(***************************************************************************)
(* Properties of update_and_install_dependencies                           *)
(***************************************************************************)
IsPrefix(s, t) == Len(s) <= Len(t) /\ SubSeq(t, 1, Len(s)) = s

\* the items probed, in the order of the probes
RECURSIVE ProbedItems(_)
ProbedItems(l) ==
    IF l = <<>> THEN <<>>
    ELSE (IF Head(l).ev = "probe" THEN <<Head(l).item>> ELSE <<>>)
         \o ProbedItems(Tail(l))

IsInstallEv(e) == e.ev = "exec" /\ e.item \in AllItems

\* C1: the four phases are entered once each and in the fixed order, whatever
\* the earlier phases returned: the phases entered are always a prefix of the
\* order, the call ends only after all four, and by then the update commands
\* have been issued first and every item of the three lists has been probed
\* exactly once, list after list.
C1_AllPhasesInOrder ==
    /\ IsPrefix(phases, PhaseOrder)
    /\ pc \in {"check", "done"} =>
         /\ phases = PhaseOrder
         /\ \A p \in Range(PhaseOrder) : phaseRes[p] # NotRun
         /\ ProbedItems(log) =
              RUSTUP_COMPONENT_LIST \o Subcommands \o SYSTEM_BINARY_LIST
         /\ Len(log) >= 2
         /\ <<log[1].name, log[1].args>> = <<"rustup", <<"self", "update">>>>
         /\ <<log[2].name, log[2].args>> = <<"rustup", <<"update">>>>
         /\ \A i \in 3..Len(log) : log[i].item # "rustup"

\* The update phase and the component phase both failed, and the call still
\* went through the subcommands and the binaries.
C1_Witness ==
    /\ pc = "done"
    /\ phaseRes["update"] = UpdateFailed
    /\ phaseRes["components"].tag = "ComponentInstallFailed"
    /\ phases = PhaseOrder

ExpectedErrors ==
    SelectSeq(<<phaseRes["update"], phaseRes["components"],
                phaseRes["subcommands"], phaseRes["binaries"]>>,
              LAMBDA r : r.tag # "Ok")

\* C2: the call returns Ok exactly when no phase failed; otherwise it returns
\* the failures of the phases that failed, one each, in phase order, none for
\* a phase that succeeded; a list bucket is never empty and holds items of
\* its own list, and the binaries bucket holds exactly the binaries absent
\* from the search path.
C2_ResultIsAllFailures ==
    pc = "done" =>
      /\ (result.tag = "Ok") <=> (ExpectedErrors = <<>>)
      /\ result.tag = "Err" => result.items = ExpectedErrors
      /\ result.tag \in {"Ok", "Err"}
      /\ \A i \in 1..Len(result.items) :
           LET b == result.items[i] IN
           /\ b.tag = "UpdateFailed" => b.items = <<>>
           /\ b.tag = "ComponentInstallFailed" =>
                b.items # <<>> /\ Range(b.items) \subseteq Range(RUSTUP_COMPONENT_LIST)
           /\ b.tag = "SubcommandsInstallFailed" =>
                b.items # <<>> /\ Range(b.items) \subseteq Range(Subcommands)
           /\ b.tag = "SystemBinariesNotInstalled" =>
                /\ b.items # <<>>
                /\ b.items = SetToSeqIn(SYSTEM_BINARY_LIST, AllItems \ onPath)
      /\ (\E e \in Range(log) : e.ev = "exec" /\ e.outcome = "io_err")
           => result.tag = "Err"
      /\ (\E b \in Range(SYSTEM_BINARY_LIST) : b \notin onPath)
           => /\ result.tag = "Err"
              /\ result.items[Len(result.items)].tag = "SystemBinariesNotInstalled"

\* A component fails and a binary is missing in the same call: both buckets
\* are returned.
C2_Witness ==
    /\ pc = "done"
    /\ result.tag = "Err"
    /\ \E i, j \in 1..Len(result.items) :
         /\ i < j
         /\ result.items[i] = ComponentInstallFailed(<<"rustfmt">>)
         /\ result.items[j] = SystemBinariesNotInstalled(<<"git">>)

StillMissing(list) ==
    SetToSeqIn(list, {x \in probedAbsent : x \notin onPath})

\* C3: once the component phase (the subcommand phase) has returned, its
\* failure bucket is exactly the items of its list that were missing and are
\* still missing after the install attempt.
C3_BucketIsWhatRemainsMissing ==
    /\ phaseRes["components"] # NotRun =>
         phaseRes["components"].items = StillMissing(RUSTUP_COMPONENT_LIST)
    /\ phaseRes["subcommands"] # NotRun =>
         phaseRes["subcommands"].items = StillMissing(Subcommands)

\* C4: an install command is issued for an item only right after a probe of
\* that item that reported it absent, and only for an item that is not on the
\* search path; no item is installed twice; an item of a failure bucket of
\* the component or subcommand phase was probed absent and was absent.
C4_ProbeBeforeInstall ==
    /\ \A i \in 1..Len(log) :
         IsInstallEv(log[i]) =>
           /\ i > 1
           /\ log[i-1].ev = "probe"
           /\ log[i-1].item = log[i].item
           /\ ~log[i-1].found
           /\ ~log[i].wasOnPath
           /\ \A j \in 1..Len(log) :
                (IsInstallEv(log[j]) /\ log[j].item = log[i].item) => j = i
    /\ \A i \in 1..Len(log) :
         (log[i].ev = "probe" /\ log[i].wasOnPath) =>
           /\ log[i].found
           /\ \A j \in 1..Len(log) : IsInstallEv(log[j]) => log[j].item # log[i].item
    /\ \A x \in Range(install_failed) \cup Range(phaseRes["components"].items)
                  \cup Range(phaseRes["subcommands"].items) :
         \E i \in 1..Len(log) :
           log[i].ev = "probe" /\ log[i].item = x /\ ~log[i].found /\ ~log[i].wasOnPath

\* One component was found on the search path and left alone, another was
\* absent and an install command was issued for it.
C4_Witness ==
    /\ pc = "done"
    /\ \E i \in 1..Len(log) :
         log[i].ev = "probe" /\ log[i].item = "cargo-clippy" /\ log[i].found
    /\ \E i \in 1..Len(log) : IsInstallEv(log[i]) /\ log[i].item = "rustfmt"

(***************************************************************************)
(* Strings are sequences of one-character strings.                         *)
(***************************************************************************)
Letters == {"a", "b", "c", "d", "e", "f", "g", "h", "i", "j", "k", "l", "m",
            "n", "o", "p", "q", "r", "s", "t", "u", "v", "w", "x", "y", "z"}
Digits == {"0", "1", "2", "3", "4", "5", "6", "7", "8", "9"}

\* whether literal `lit` stands in `s` at index i
At(s, i, lit) ==
    /\ i >= 1
    /\ i + Len(lit) - 1 <= Len(s)
    /\ SubSeq(s, i, i + Len(lit) - 1) = lit

EndsWith(s, lit) == Len(lit) <= Len(s) /\ At(s, Len(s) - Len(lit) + 1, lit)

\* indices of character c in s
IndicesOf(s, c) == {i \in 1..Len(s) : s[i] = c}

Max(S) == CHOOSE x \in S : \A y \in S : y <= x
Min(S) == CHOOSE x \in S : \A y \in S : x <= y

\* s.split(c).last(): the text after the last c, all of s when there is none
SplitLast(s, c) ==
    IF IndicesOf(s, c) = {} THEN s
    ELSE SubSeq(s, Max(IndicesOf(s, c)) + 1, Len(s))

\* s.split(c).next(): the text before the first c, all of s when there is none
SplitFirst(s, c) ==
    IF IndicesOf(s, c) = {} THEN s
    ELSE SubSeq(s, 1, Min(IndicesOf(s, c)) - 1)

(***************************************************************************)
(* target.rs: the regular expression of TargetPath::new,                   *)
(*   ((git|ssh|http(s)?)|(git@[\w\.]+))(:(//)?)([\w\.@:/\-~]+)(\.git)(/)?  *)
(* searched anywhere in the input (Regex::is_match is not anchored).       *)
(***************************************************************************)
WordChar(c) == c \in Letters \cup Digits \cup {"_"}
HostChar(c) == WordChar(c) \/ c = "."
BodyChar(c) == WordChar(c) \/ c \in {".", "@", ":", "/", "-", "~"}

L_git == <<"g", "i", "t">>
L_ssh == <<"s", "s", "h">>
L_http == <<"h", "t", "t", "p">>
L_https == <<"h", "t", "t", "p", "s">>
L_gitAt == <<"g", "i", "t", "@">>
L_dotGit == <<".", "g", "i", "t">>
L_slashDotGit == <<"/", ".", "g", "i", "t">>

\* the indices right after a match of ((git|ssh|http(s)?)|(git@[\w\.]+)) at i
SchemeEnds(s, i) ==
    {i + Len(l) : l \in {l \in {L_git, L_ssh, L_http, L_https} : At(s, i, l)}}
    \cup {i + 4 + n : n \in {n \in 1..Len(s) :
                               /\ At(s, i, L_gitAt)
                               /\ i + 3 + n <= Len(s)
                               /\ \A j \in (i + 4)..(i + 3 + n) : HostChar(s[j])}}

\* the indices right after a match of (:(//)?) at k
SepEnds(s, k) ==
    IF k <= Len(s) /\ s[k] = ":"
    THEN {k + 1} \cup (IF At(s, k + 1, <<"/", "/">>) THEN {k + 3} ELSE {})
    ELSE {}

\* ([\w\.@:/\-~]+)(\.git) at p; the trailing (/)? matches the empty string too
BodyThenDotGit(s, p) ==
    \E m \in 1..Len(s) :
        /\ p + m - 1 <= Len(s)
        /\ \A j \in p..(p + m - 1) : BodyChar(s[j])
        /\ At(s, p + m, L_dotGit)

is_match(s) ==
    \E i \in 1..Len(s) :
        \E k \in SchemeEnds(s, i) : \E p \in SepEnds(s, k) : BodyThenDotGit(s, p)

\* TargetPath::new
TargetPathNewPathFirst(target_path, exists) ==
    IF exists
    THEN [tag |-> "Path", val |-> target_path, probes |-> 1]
    ELSE IF is_match(target_path)
    THEN [tag |-> "RemoteRepository", val |-> target_path, probes |-> 1]
    ELSE [tag |-> "LocalPathDoesNotExist", val |-> target_path, probes |-> 1]
TargetPathNewErrLosesInput(target_path, exists) ==
    IF is_match(target_path)
    THEN [tag |-> "RemoteRepository", val |-> target_path, probes |-> 0]
    ELSE IF exists
    THEN [tag |-> "Path", val |-> target_path, probes |-> 1]
    ELSE [tag |-> "LocalPathDoesNotExist", val |-> <<>>, probes |-> 1]
TargetPathNew(target_path, exists) ==
    IF is_match(target_path)
    THEN [tag |-> "RemoteRepository", val |-> target_path, probes |-> 0]
    ELSE IF exists
    THEN [tag |-> "Path", val |-> target_path, probes |-> 1]
    ELSE [tag |-> "LocalPathDoesNotExist", val |-> target_path, probes |-> 1]

is_local(tp) == tp.tag = "Path"

(***************************************************************************)
(* download.rs                                                             *)
(***************************************************************************)
\* The directory, relative to the current directory, that
\* create_path_from_repo_name pushes onto env::current_dir().
create_path_from_repo_name(git_url) ==
    SplitFirst(SplitLast(git_url, "/"), ".")

\* path.exists() for the current directory joined with `name`; pushing the
\* empty name leaves the current directory itself.
DirExists(name, dirs) == name = <<>> \/ name \in dirs

RECURSIVE StripTrailing(_, _)
StripTrailing(s, c) ==
    IF s # <<>> /\ s[Len(s)] = c THEN StripTrailing(SubSeq(s, 1, Len(s) - 1), c)
    ELSE s

StripSuffix(s, lit) ==
    IF EndsWith(s, lit) THEN SubSeq(s, 1, Len(s) - Len(lit)) ELSE s

\* The directory `git clone <url>` creates in the current directory: trailing
\* slashes and a trailing /.git dropped, the last component after a slash or
\* a colon, its .git suffix dropped.
GitCloneDir(git_url) ==
    LET a == StripTrailing(git_url, "/")
        b == IF Len(a) > 5 /\ EndsWith(a, L_slashDotGit)
             THEN StripTrailing(SubSeq(a, 1, Len(a) - 5), "/") ELSE a
        c == SplitLast(SplitLast(b, "/"), ":")
    IN  StripSuffix(c, L_dotGit)

\* The answers of the process layer to `git clone`: the process could not be
\* launched, it exited with status 0 having created the directory, or it
\* exited with another status having created nothing.
CloneOutcomes(git_url, dirs) ==
    {"io_err", "exit_fail"}
    \cup (IF GitCloneDir(git_url) # <<>> /\ GitCloneDir(git_url) \notin dirs
          THEN {"exit_ok"} ELSE {})

\* download_from_git: the record of one call under clone outcome `o`
download_from_git(git_url, dirs, o) ==
    LET path == create_path_from_repo_name(git_url) IN
    IF ~DirExists(path, dirs)
    THEN [url |-> git_url, ret |-> path, cloned |-> TRUE, outcome |-> o,
          status |-> IF o = "io_err" THEN "panicked" ELSE "returned"]
    ELSE [url |-> git_url, ret |-> path, cloned |-> FALSE, outcome |-> "none",
          status |-> "returned"]

DirsAfter(call, dirs) ==
    IF call.cloned /\ call.outcome = "exit_ok"
    THEN dirs \cup {GitCloneDir(call.url)} ELSE dirs

(***************************************************************************)
(* The inputs: a prefix, a scheme, a separator, a body and a suffix.       *)
(***************************************************************************)
InPrefixes == {<<>>, <<".", "/">>}
InSchemes == {L_https, L_http, L_git, L_ssh, <<"g", "i", "t", "@", "h">>,
              <<"f", "t", "p">>, <<>>}
InSeps == {<<":">>, <<":", "/", "/">>, <<>>}
InBodies == {<<"u", "/", "r">>, <<"u", "/", "m", ".", "r">>, <<"r">>, <<>>,
             <<"u", " ", "r">>}
InSuffixes == {L_dotGit, <<".", "g", "i", "t", "/">>, <<>>, <<".", "g", "i">>}

Inputs ==
    {a \o b \o c \o d \o e :
        a \in InPrefixes, b \in InSchemes, c \in InSeps, d \in InBodies,
        e \in InSuffixes}

\* How many times the tool is run on the same reference.
MaxRuns == 2

IdleDeps ==
    /\ pc = "idle"
    /\ idx = 1
    /\ onPath = {}
    /\ dependency_error = <<>>
    /\ install_failed = <<>>
    /\ log = <<>>
    /\ phases = <<>>
    /\ phaseRes = [p \in Range(PhaseOrder) |-> NotRun]
    /\ probedAbsent = {}
    /\ result = NotRun

InitTarget ==
    /\ IdleDeps
    /\ IdleSloc
    /\ IdleCov
    /\ IdleReport
    /\ IdleMain
    /\ target \in Inputs
    /\ pathExists \in BOOLEAN
    /\ cwdDirs \in SUBSET ({create_path_from_repo_name(target), GitCloneDir(target)}
                             \ {<<>>})
    /\ tpc = "start"
    /\ targetPath = [tag |-> "None", val |-> <<>>]
    /\ fsProbes = 0
    /\ dl = <<>>
    /\ workdir = [tag |-> "None", val |-> <<>>]

\* download_repository: TargetPath::new(target.clone()).unwrap()
ResolveTarget ==
    /\ tpc = "start"
    /\ LET r == TargetPathNew(target, pathExists) IN
       /\ targetPath' = [tag |-> r.tag, val |-> r.val]
       /\ fsProbes' = fsProbes + r.probes
       /\ tpc' = IF r.tag = "LocalPathDoesNotExist" THEN "panicked" ELSE "resolved"
    /\ UNCHANGED <<target, pathExists, cwdDirs, dl, workdir>>
    /\ UNCHANGED notTgtVars

\* download_repository: the local branch returns the path as it is
UseLocalPath ==
    /\ tpc = "resolved"
    /\ is_local(targetPath)
    /\ workdir' = [tag |-> "Path", val |-> targetPath.val]
    /\ tpc' = "done"
    /\ UNCHANGED <<target, pathExists, cwdDirs, targetPath, fsProbes, dl>>
    /\ UNCHANGED notTgtVars

\* One call download_from_git(&target[..]) and its effect on the directory.
CallDownload ==
    \E o \in CloneOutcomes(target, cwdDirs) :
        LET call == download_from_git(target, cwdDirs, o) IN
        /\ dl' = Append(dl, call)
        /\ cwdDirs' = DirsAfter(call, cwdDirs)
        /\ workdir' = IF call.status = "returned"
                      THEN [tag |-> "Dir", val |-> call.ret]
                      ELSE [tag |-> "None", val |-> <<>>]
        /\ tpc' = IF call.status = "returned" THEN "done" ELSE "panicked"

\* download_repository: the remote branch
Materialize ==
    /\ tpc = "resolved"
    /\ ~is_local(targetPath)
    /\ CallDownload
    /\ UNCHANGED <<target, pathExists, targetPath, fsProbes>>
    /\ UNCHANGED notTgtVars

\* The tool is run again on the same reference in the same directory.
Rerun ==
    /\ tpc = "done"
    /\ ~is_local(targetPath)
    /\ Len(dl) < MaxRuns
    /\ CallDownload
    /\ UNCHANGED <<target, pathExists, targetPath, fsProbes>>
    /\ UNCHANGED notTgtVars

download_repository ==
    \/ ResolveTarget
    \/ UseLocalPath
    \/ Materialize
    \/ Rerun

NextTarget == download_repository

SpecTarget == InitTarget /\ [][NextTarget]_vars

(***************************************************************************)
(* Properties of TargetPath::new and download_from_git                     *)
(***************************************************************************)
\* C5: an input the remote-repository expression matches is returned as
\* RemoteRepository carrying the input itself, and no filesystem query is
\* made, also when a local entry of that name exists.
C5_RemoteShapeEchoed ==
    (tpc # "start" /\ is_match(target)) =>
        /\ targetPath = [tag |-> "RemoteRepository", val |-> target]
        /\ fsProbes = 0

\* A remote-shaped input that also names an existing local entry.
C5_Witness ==
    /\ tpc = "resolved"
    /\ is_match(target)
    /\ pathExists
    /\ targetPath = [tag |-> "RemoteRepository", val |-> target]

\* C6: an input the expression does not match is returned as Path wrapping
\* the input when the path exists, and as the error LocalPathDoesNotExist
\* carrying the input when it does not; nothing else is returned.
C6_LocalPathOrError ==
    (tpc # "start" /\ ~is_match(target)) =>
        /\ pathExists => targetPath = [tag |-> "Path", val |-> target]
        /\ ~pathExists =>
             targetPath = [tag |-> "LocalPathDoesNotExist", val |-> target]
        /\ fsProbes = 1

\* A path that is not remote-shaped and does not exist: the error carries it.
C6_Witness ==
    /\ tpc # "start"
    /\ ~is_match(target)
    /\ ~pathExists
    /\ target # <<>>
    /\ targetPath = [tag |-> "LocalPathDoesNotExist", val |-> target]

\* C7: of two calls in a row with the same reference, both return the same
\* directory, and the second issues no clone command and raises no error.
C7_SecondCallDoesNotFetch ==
    Len(dl) >= 2 =>
        /\ dl[1].url = dl[2].url
        /\ dl[1].ret = dl[2].ret
        /\ ~dl[2].cloned
        /\ dl[2].status = "returned"

\* the final path segment of the reference, its trailing .git stripped
FinalSegmentSansGit(url) ==
    StripSuffix(SplitLast(IF url # <<>> /\ url[Len(url)] = "/"
                          THEN SubSeq(url, 1, Len(url) - 1) ELSE url, "/"),
                L_dotGit)

\* C8: for every reference the resolver accepts as remote, the directory
\* derived is the final path segment of the reference with its trailing
\* .git stripped, and every call with that reference returns it.
C8_DirIsFinalSegment ==
    targetPath.tag = "RemoteRepository" =>
        /\ create_path_from_repo_name(targetPath.val) =
             FinalSegmentSansGit(targetPath.val)
        /\ \A i \in 1..Len(dl) : dl[i].ret = FinalSegmentSansGit(targetPath.val)

\* C9: a clone that failed is an error for the caller: the call does not
\* return a directory, and no second clone is issued by the same call.
C9_CloneFailureSurfaced ==
    \A i \in 1..Len(dl) :
        (dl[i].cloned /\ dl[i].outcome # "exit_ok") => dl[i].status # "returned"

(***************************************************************************)
(* quality.rs: parse_sloc_json                                             *)
(*                                                                         *)
(* A JSON value of an entry is a record: whether it is an object, whether  *)
(* it has the members "reports" and "children", and its members "code",    *)
(* "comments", "blanks" and "inaccurate", each a field [k, v]: k says what *)
(* the member is ("absent", "u64", "bool", or "other" for any other JSON   *)
(* value), v its value (a bool as 0 or 1).                                 *)
(***************************************************************************)
Absent == [k |-> "absent", v |-> 0]
Other == [k |-> "other", v |-> 0]
U64(n) == [k |-> "u64", v |-> n]
Bool(b) == [k |-> "bool", v |-> IF b THEN 1 ELSE 0]

\* value[name].as_u64().unwrap(): indexing a missing member panics, and so
\* does a member that is no unsigned integer
as_u64_unwrap(f) == IF f.k = "u64" THEN [ok |-> TRUE, v |-> f.v]
                    ELSE [ok |-> FALSE, v |-> 0]

\* value[name].as_bool().unwrap()
as_bool_unwrap(f) == IF f.k = "bool" THEN [ok |-> TRUE, v |-> f.v]
                     ELSE [ok |-> FALSE, v |-> 0]

Panicked == [tag |-> "Panic", language_info |-> <<>>, code |-> 0, comments |-> 0,
             inaccurate |-> FALSE]

EmptySloc == [tag |-> "Sloc", language_info |-> <<>>, code |-> 0, comments |-> 0,
              inaccurate |-> FALSE]

LanguageInfo(language, blanks, code, comments) ==
    [language |-> language, blanks |-> blanks, code |-> code, comments |-> comments]

\* The body of the loop for one (key, value), from the report built so far.
parse_entryTotalIsLanguage(json_report, key, value) ==
    IF ~value.obj \/ ~value.reports \/ ~value.children THEN Panicked
    ELSE LET blanks == as_u64_unwrap(value.blanks)
             code == as_u64_unwrap(value.code)
             comments == as_u64_unwrap(value.comments)
         IN  IF ~blanks.ok \/ ~code.ok \/ ~comments.ok THEN Panicked
             ELSE [json_report EXCEPT
                     !.language_info =
                        Append(@, LanguageInfo(key, blanks.v, code.v, comments.v)),
                     !.code = IF key = "Total" THEN code.v ELSE @,
                     !.comments = IF key = "Total" THEN comments.v ELSE @]
parse_entry(json_report, key, value) ==
    IF ~value.obj THEN Panicked
    ELSE IF ~value.reports THEN Panicked
    ELSE IF ~value.children THEN Panicked
    ELSE IF key = "Total"
    THEN LET code == as_u64_unwrap(value.code)
             comments == as_u64_unwrap(value.comments)
             inaccurate == as_bool_unwrap(value.inaccurate)
         IN  IF ~code.ok \/ ~comments.ok \/ ~inaccurate.ok THEN Panicked
             ELSE [json_report EXCEPT !.code = code.v,
                                      !.comments = comments.v,
                                      !.inaccurate = (inaccurate.v = 1)]
    ELSE LET blanks == as_u64_unwrap(value.blanks)
             code == as_u64_unwrap(value.code)
             comments == as_u64_unwrap(value.comments)
         IN  IF ~blanks.ok \/ ~code.ok \/ ~comments.ok THEN Panicked
             ELSE [json_report EXCEPT
                     !.language_info =
                        Append(@, LanguageInfo(key, blanks.v, code.v, comments.v))]

RECURSIVE parse_loop(_, _)
parse_loop(entries, json_report) ==
    IF entries = <<>> THEN json_report
    ELSE LET r == parse_entry(json_report, Head(entries).key, Head(entries).value)
         IN  IF r.tag = "Panic" THEN Panicked ELSE parse_loop(Tail(entries), r)

parse_sloc_json(entries) == parse_loop(entries, EmptySloc)

(***************************************************************************)
(* The inputs of parse_sloc_json                                           *)
(***************************************************************************)
\* The largest line count of an input.
MaxCount == 1
Keys == {"Rust", "Toml", "Total"}

Value(reports, children, code, comments, blanks, inaccurate) ==
    [obj |-> TRUE, reports |-> reports, children |-> children, code |-> code,
     comments |-> comments, blanks |-> blanks, inaccurate |-> inaccurate]

NotAnObject ==
    [obj |-> FALSE, reports |-> FALSE, children |-> FALSE, code |-> Absent,
     comments |-> Absent, blanks |-> Absent, inaccurate |-> Absent]

\* what the line counter writes for a language
LanguageValues ==
    {Value(TRUE, TRUE, U64(c), U64(m), U64(b), Bool(FALSE)) :
        c \in 0..MaxCount, m \in 0..MaxCount, b \in 0..MaxCount}

\* what the line counter writes for "Total"
TotalValues ==
    {Value(TRUE, TRUE, U64(c), U64(m), U64(0), Bool(i)) :
        c \in 0..MaxCount, m \in 0..MaxCount, i \in BOOLEAN}

\* entries of another shape
OddValues ==
    { NotAnObject,
      Value(FALSE, FALSE, U64(1), U64(0), U64(1), Bool(FALSE)),
      Value(FALSE, TRUE, U64(1), U64(0), U64(1), Bool(FALSE)),
      Value(TRUE, FALSE, U64(1), U64(0), U64(1), Bool(FALSE)),
      Value(TRUE, TRUE, Absent, U64(0), U64(1), Bool(FALSE)),
      Value(TRUE, TRUE, U64(1), Other, U64(1), Bool(FALSE)),
      Value(TRUE, TRUE, U64(1), U64(0), Absent, Bool(FALSE)),
      Value(TRUE, TRUE, U64(1), U64(0), U64(1), Absent),
      Value(TRUE, TRUE, U64(1), U64(0), U64(1), Other) }

ValuesOf(key) ==
    (IF key = "Total" THEN TotalValues ELSE LanguageValues) \cup OddValues

\* {"Rust": {code 100, comments 10, blanks 5},
\*  "Total": {code 100, comments 10, blanks 5, inaccurate false}},
\* with the nested members "reports" and "children" or without them
ExampleInput(nested) ==
    << [key |-> "Rust",
        value |-> Value(nested, nested, U64(100), U64(10), U64(5), Absent)],
       [key |-> "Total",
        value |-> Value(nested, nested, U64(100), U64(10), U64(5), Bool(FALSE))] >>

\* the entries of a map: every key at most once, in the order of iteration
JsonInputs ==
    {ExampleInput(TRUE), ExampleInput(FALSE)} \cup
    UNION {
      { e \in [1..n -> [key : Keys, value : LanguageValues \cup TotalValues \cup OddValues]] :
          /\ \A i, j \in 1..n : i # j => e[i].key # e[j].key
          /\ \A i \in 1..n : e[i].value \in ValuesOf(e[i].key) }
      : n \in 0..Cardinality(Keys) }

InitSloc ==
    /\ IdleDeps
    /\ IdleTarget
    /\ IdleCov
    /\ IdleReport
    /\ IdleMain
    /\ json \in JsonInputs
    /\ spc = "start"
    /\ sloc = NoSloc

ParseSloc ==
    /\ spc = "start"
    /\ sloc' = parse_sloc_json(json)
    /\ spc' = "done"
    /\ UNCHANGED json
    /\ UNCHANGED notSlocVars

NextSloc == ParseSloc

SpecSloc == InitSloc /\ [][NextSloc]_vars

(***************************************************************************)
(* Properties of parse_sloc_json                                           *)
(***************************************************************************)
\* an entry as the line counter writes it: an object with "reports" and
\* "children", unsigned "code" and "comments", unsigned "blanks" for a
\* language and a boolean "inaccurate" for "Total"
WrittenByTool(e) ==
    /\ e.value.obj /\ e.value.reports /\ e.value.children
    /\ e.value.code.k = "u64"
    /\ e.value.comments.k = "u64"
    /\ e.key = "Total" => e.value.inaccurate.k = "bool"
    /\ e.key # "Total" => e.value.blanks.k = "u64"

CarriesCounts(e) ==
    /\ e.value.obj
    /\ e.value.code.k = "u64"
    /\ e.value.comments.k = "u64"
    /\ e.value.blanks.k = "u64"
    /\ e.key = "Total" => e.value.inaccurate.k = "bool"

\* C11: every input whose entries carry code, comments and blanks (and
\* inaccurate for "Total") is accepted, with or without the nested members,
\* and the example of the two entries Rust and Total gives one
\* LanguageInfo{Rust, code 100, comments 10, blanks 5}, code 100, comments 10
\* and inaccurate false.
C11_NestedMembersOptional ==
    (spc = "done" /\ \A i \in 1..Len(json) : CarriesCounts(json[i])) =>
        /\ sloc.tag = "Sloc"
        /\ json \in {ExampleInput(TRUE), ExampleInput(FALSE)} =>
             sloc = [tag |-> "Sloc",
                     language_info |-> <<LanguageInfo("Rust", 5, 100, 10)>>,
                     code |-> 100, comments |-> 10, inaccurate |-> FALSE]

\* an entry with a member the parse reads absent or of the wrong shape
Malformed(e) ==
    \/ ~e.value.obj
    \/ e.value.code.k # "u64"
    \/ e.value.comments.k # "u64"
    \/ e.key # "Total" /\ e.value.blanks.k # "u64"
    \/ e.key = "Total" /\ e.value.inaccurate.k # "bool"

\* C12: a parse that meets a malformed entry ends with an error value for
\* the caller: not with a fault, not with a report.
C12_ParseFailureIsAnErrorValue ==
    (spc = "done" /\ \E i \in 1..Len(json) : Malformed(json[i])) =>
        sloc.tag = "Err"

(***************************************************************************)
(* quality.rs: the coverage parser.  The text the coverage tool prints is  *)
(* a sequence of characters; str::split, str::trim, str::contains and      *)
(* str::parse are modelled by what they do on it.                          *)
(***************************************************************************)
\* char::is_whitespace, for the characters the texts use
White == {" ", "\n"}

RECURSIVE Split(_, _)
\* s.split(pat).collect(): the pieces between the occurrences of pat, found
\* from the left and not overlapping
Split(s, pat) ==
    LET hits == {i \in 1..Len(s) : At(s, i, pat)} IN
    IF hits = {} THEN <<s>>
    ELSE <<SubSeq(s, 1, Min(hits) - 1)>>
         \o Split(SubSeq(s, Min(hits) + Len(pat), Len(s)), pat)

RECURSIVE TrimStart(_)
TrimStart(s) == IF s # <<>> /\ Head(s) \in White THEN TrimStart(Tail(s)) ELSE s

RECURSIVE TrimEnd(_)
TrimEnd(s) ==
    IF s # <<>> /\ s[Len(s)] \in White THEN TrimEnd(SubSeq(s, 1, Len(s) - 1)) ELSE s

\* str::trim
Trim(s) == TrimEnd(TrimStart(s))

\* str::contains
Contains(s, pat) == \E i \in 1..Len(s) : At(s, i, pat)

TrimAll(l) == [i \in 1..Len(l) |-> Trim(l[i])]

DigitVal(c) == CHOOSE n \in 0..9 : <<"0", "1", "2", "3", "4", "5", "6", "7", "8", "9">>[n + 1] = c

RECURSIVE DigitsValue(_, _)
DigitsValue(acc, s) ==
    IF s = <<>> THEN acc ELSE DigitsValue(acc * 10 + DigitVal(Head(s)), Tail(s))

RECURSIVE StripLeading(_, _)
StripLeading(s, c) == IF s # <<>> /\ Head(s) = c THEN StripLeading(Tail(s), c) ELSE s

\* whether digit string a (no leading zero) is a greater number than b
DigitsGreater(a, b) ==
    \/ Len(a) > Len(b)
    \/ /\ Len(a) = Len(b)
       /\ \E i \in 1..Len(a) :
            /\ DigitVal(a[i]) > DigitVal(b[i])
            /\ \A j \in 1..(i - 1) : a[j] = b[j]

U32_MAX_DIGITS == <<"4", "2", "9", "4", "9", "6", "7", "2", "9", "5">>

ParseErr == [ok |-> FALSE, v |-> 0]

\* str::parse::<u32>(): an optional "+", then one digit or more and nothing
\* else, of a value that fits 32 bits
ParseU32(s) ==
    LET d == IF s # <<>> /\ Head(s) = "+" THEN Tail(s) ELSE s IN
    IF d = <<>> \/ \E i \in 1..Len(d) : d[i] \notin Digits THEN ParseErr
    ELSE IF DigitsGreater(StripLeading(d, "0"), U32_MAX_DIGITS) THEN ParseErr
    ELSE [ok |-> TRUE, v |-> DigitsValue(0, d)]

ToLower(c) ==
    CASE c = "N" -> "n" [] c = "A" -> "a" [] c = "I" -> "i" [] c = "F" -> "f"
      [] c = "T" -> "t" [] c = "Y" -> "y" [] c = "E" -> "e" [] OTHER -> c

NaN == F64("nan", FALSE, 0, 0)
Inf(neg) == F64("inf", neg, 0, 0)

\* the decimal exponents past which an f64 is infinite, or zero
F64_MAX_10_EXP == 308
F64_MIN_10_EXP == 0 - 324

RECURSIVE TrimEndZeros(_)
TrimEndZeros(s) ==
    IF s # <<>> /\ s[Len(s)] = "0" THEN TrimEndZeros(SubSeq(s, 1, Len(s) - 1)) ELSE s

\* the f64 of sign, digit string and decimal exponent
Decimal(neg, digits, exp) ==
    LET d == StripLeading(digits, "0")
        m == TrimEndZeros(d)
    IN  IF d = <<>> THEN F64("finite", neg, 0, 0)
        ELSE IF Len(d) + exp - 1 > F64_MAX_10_EXP THEN Inf(neg)
        ELSE IF Len(d) + exp - 1 < F64_MIN_10_EXP THEN F64("finite", neg, 0, 0)
        ELSE F64("finite", neg, DigitsValue(0, m), exp + Len(d) - Len(m))

F64Err == [ok |-> FALSE, v |-> Zero]

\* str::parse::<f64>(): an optional sign, then "inf", "infinity" or "nan"
\* in any case, or digits with at most one "." and a digit at least, and an
\* optional exponent "e" or "E", sign, digits
ParseF64(s) ==
    LET signed == s # <<>> /\ Head(s) \in {"+", "-"}
        neg == signed /\ Head(s) = "-"
        body == IF signed THEN Tail(s) ELSE s
        low == [i \in 1..Len(body) |-> ToLower(body[i])]
        es == IndicesOf(low, "e")
        num == IF es = {} THEN body ELSE SubSeq(body, 1, Min(es) - 1)
        ex == IF es = {} THEN <<"0">> ELSE SubSeq(body, Min(es) + 1, Len(body))
        exSigned == ex # <<>> /\ Head(ex) \in {"+", "-"}
        exDigits == IF exSigned THEN Tail(ex) ELSE ex
        dots == IndicesOf(num, ".")
        int == IF dots = {} THEN num ELSE SubSeq(num, 1, Min(dots) - 1)
        frac == IF dots = {} THEN <<>> ELSE SubSeq(num, Min(dots) + 1, Len(num))
        exVal == IF exSigned /\ Head(ex) = "-" THEN 0 - DigitsValue(0, exDigits)
                 ELSE DigitsValue(0, exDigits)
    IN  IF low \in {<<"i", "n", "f">>, <<"i", "n", "f", "i", "n", "i", "t", "y">>}
        THEN [ok |-> TRUE, v |-> Inf(neg)]
        ELSE IF low = <<"n", "a", "n">> THEN [ok |-> TRUE, v |-> NaN]
        ELSE IF \/ int \o frac = <<>>
                \/ \E i \in 1..Len(int \o frac) : (int \o frac)[i] \notin Digits
                \/ exDigits = <<>>
                \/ \E i \in 1..Len(exDigits) : exDigits[i] \notin Digits
        THEN F64Err
        ELSE [ok |-> TRUE, v |-> Decimal(neg, int \o frac, exVal - Len(frac))]

FileCoverage(name, uncovered_lines) ==
    [name |-> name, uncovered_lines |-> uncovered_lines]

PanickedCoverage == Coverage("Panic", <<>>, Zero, 0, 0)

\* parse_tarpaulin_output with a third piece taken off the front
parse_tarpaulin_outputDropsThree(tarpaulin_output) ==
    LET output == Split(tarpaulin_output, <<"|", "|">>) IN
    IF Len(output) < 3 THEN [ok |-> FALSE, v |-> <<>>]
    ELSE [ok |-> TRUE, v |-> TrimAll(SubSeq(output, 4, Len(output)))]

\* parse_tarpaulin_output: the pieces between "||", without the first two,
\* each trimmed; Vec::remove(0) panics on an empty vector
parse_tarpaulin_output(tarpaulin_output) ==
    LET output == Split(tarpaulin_output, <<"|", "|">>) IN
    IF Len(output) < 2 THEN [ok |-> FALSE, v |-> <<>>]
    ELSE [ok |-> TRUE, v |-> TrimAll(SubSeq(output, 3, Len(output)))]

\* parse_total_coverage_data with the counts taken in the other order
parse_total_coverage_dataSwapped(total_coverage_data) ==
    LET splitted_total == TrimAll(Split(total_coverage_data, <<",">>))
        coverage_percentage == ParseF64(Split(splitted_total[1], <<"%">>)[1])
        num_lines == IF Len(splitted_total) < 2 THEN <<>>
                     ELSE Split(Split(splitted_total[2], <<" ">>)[1], <<"/">>)
    IN  IF \/ ~coverage_percentage.ok
           \/ Len(num_lines) < 2
           \/ ~ParseU32(num_lines[1]).ok
           \/ ~ParseU32(num_lines[2]).ok
        THEN PanickedCoverage
        ELSE Coverage("Ok", <<>>, coverage_percentage.v,
                      ParseU32(num_lines[2]).v, ParseU32(num_lines[1]).v)

\* parse_total_coverage_data: the percentage is the text before the first
\* "%" of the first comma-separated field, the counts are the two texts
\* around the first "/" of the first word of the second field; a missing
\* second field, a missing "/" and a text that does not parse all panic
parse_total_coverage_data(total_coverage_data) ==
    LET splitted_total == TrimAll(Split(total_coverage_data, <<",">>))
        coverage_percentage == ParseF64(Split(splitted_total[1], <<"%">>)[1])
        num_lines == IF Len(splitted_total) < 2 THEN <<>>
                     ELSE Split(Split(splitted_total[2], <<" ">>)[1], <<"/">>)
    IN  IF \/ ~coverage_percentage.ok
           \/ Len(num_lines) < 2
           \/ ~ParseU32(num_lines[1]).ok
           \/ ~ParseU32(num_lines[2]).ok
        THEN PanickedCoverage
        ELSE Coverage("Ok", <<>>, coverage_percentage.v,
                      ParseU32(num_lines[1]).v, ParseU32(num_lines[2]).v)

NoLines == [ok |-> FALSE, v |-> <<>>]

\* (start..=end).collect()
RangeInclusive(start, end) ==
    IF end < start THEN <<>> ELSE [i \in 1..(end - start + 1) |-> start + i - 1]

\* the closure of parse_each_file_uncovered_lines with a range taken as its
\* two ends only
lines_of_tokenEndsOnly(x) ==
    IF Contains(x, <<"-">>)
    THEN LET splitted == Split(x, <<"-">>)
             start == ParseU32(splitted[1])
             end == ParseU32(splitted[2])
         IN  IF start.ok /\ end.ok
             THEN [ok |-> TRUE, v |-> <<start.v, end.v>>]
             ELSE NoLines
    ELSE IF ParseU32(x).ok THEN [ok |-> TRUE, v |-> <<ParseU32(x).v>>]
    ELSE NoLines

\* the closure of parse_each_file_uncovered_lines: the lines of one token
lines_of_token(x) ==
    IF Contains(x, <<"-">>)
    THEN LET splitted == Split(x, <<"-">>)
             start == ParseU32(splitted[1])
             end == ParseU32(splitted[2])
         IN  IF start.ok /\ end.ok
             THEN [ok |-> TRUE, v |-> RangeInclusive(start.v, end.v)]
             ELSE NoLines
    ELSE IF ParseU32(x).ok THEN [ok |-> TRUE, v |-> <<ParseU32(x).v>>]
    ELSE NoLines

RECURSIVE flatten_tokens(_)
\* .map(..).flatten().collect(): the lines of the tokens, in token order
flatten_tokens(tokens) ==
    IF tokens = <<>> THEN [ok |-> TRUE, v |-> <<>>]
    ELSE LET h == lines_of_token(Head(tokens))
             t == flatten_tokens(Tail(tokens))
         IN  IF h.ok /\ t.ok THEN [ok |-> TRUE, v |-> h.v \o t.v] ELSE NoLines

\* the body of the loop of parse_each_file_uncovered_lines: the name is the
\* text before the first ":", the tokens are the comma-separated pieces of
\* the text between the first ":" and the second; no ":" is an index out of
\* bounds
parse_file(uncovered_data) ==
    LET splitted_uncovered == Split(uncovered_data, <<":">>) IN
    IF Len(splitted_uncovered) < 2 THEN [ok |-> FALSE, v |-> FileCoverage(<<>>, <<>>)]
    ELSE LET uncovered_lines ==
                 flatten_tokens(TrimAll(Split(splitted_uncovered[2], <<",">>)))
         IN  [ok |-> uncovered_lines.ok,
              v |-> FileCoverage(splitted_uncovered[1], uncovered_lines.v)]

RECURSIVE parse_each_file_uncovered_lines(_)
\* parse_each_file_uncovered_lines: one FileCoverage for each section, in
\* section order; a panic in one section ends the call
parse_each_file_uncovered_lines(files) ==
    IF files = <<>> THEN [ok |-> TRUE, v |-> <<>>]
    ELSE LET h == parse_file(Head(files))
             t == parse_each_file_uncovered_lines(Tail(files))
         IN  IF h.ok /\ t.ok THEN [ok |-> TRUE, v |-> <<h.v>> \o t.v]
             ELSE [ok |-> FALSE, v |-> <<>>]

(***************************************************************************)
(* quality.rs: search_code_coverage_json, and the texts it is run on       *)
(***************************************************************************)
\* the message of the error search_code_coverage_json returns
TarpaulinNotInstalled == "Error: tarpaulin is not installed."

ErrCoverage == Coverage("Err", <<>>, Zero, 0, 0)

RECURSIVE Numeral(_)
\* the decimal text of a natural number
Numeral(n) ==
    IF n < 10 THEN <<<<"0", "1", "2", "3", "4", "5", "6", "7", "8", "9">>[n + 1]>>
    ELSE Numeral(n \div 10) \o Numeral(n % 10)

RECURSIVE Join(_, _)
Join(l, sep) ==
    IF l = <<>> THEN <<>>
    ELSE IF Len(l) = 1 THEN l[1]
    ELSE l[1] \o sep \o Join(Tail(l), sep)

L_TotalLines ==
    <<"T", "o", "t", "a", "l", " ", "L", "i", "n", "e", "s">>

T_Log ==
    <<"I", "N", "F", "O", " ", "c", "a", "r", "g", "o", "_", "t", "a", "r",
    "p", "a", "u", "l", "i", "n", ":", ":", "r", "e", "p", "o", "r", "t", ":",
    " ", "C", "o", "v", "e", "r", "a", "g", "e", " ", "R", "e", "s", "u", "l",
    "t", "s", ":", "\n">>

T_UncoveredHeader ==
    <<"|", "|", " ", "U", "n", "c", "o", "v", "e", "r", "e", "d", " ", "L",
    "i", "n", "e", "s", ":", "\n">>

T_TestedHeader ==
    <<"|", "|", " ", "T", "e", "s", "t", "e", "d", "/", "T", "o", "t", "a",
    "l", " ", "L", "i", "n", "e", "s", ":", "\n", "|", "|", " ", "s", "r",
    "c", "/", "l", "i", "b", ".", "r", "s", ":", " ", "1", "7", "1", "/", "2",
    "0", "0", "\n", "|", "|", " ", "\n">>

T_LibRs ==
    <<"s", "r", "c", "/", "l", "i", "b", ".", "r", "s">>

T_MainRs ==
    <<"s", "r", "c", "/", "m", "a", "i", "n", ".", "r", "s">>

T_Coverage ==
    <<"%", " ", "c", "o", "v", "e", "r", "a", "g", "e", ",", " ">>

T_LinesCovered ==
    <<" ", "l", "i", "n", "e", "s", " ", "c", "o", "v", "e", "r", "e", "d">>


\* ---- the per-file sections
\* How many tokens a section lists.
MaxTokens == 2

Single(n) == [range |-> FALSE, start |-> n, end |-> n]
FromTo(a, b) == [range |-> TRUE, start |-> a, end |-> b]

Tokens == {Single(20), FromTo(12, 15), FromTo(7, 5)}

TokenText(t) ==
    IF t.range THEN Numeral(t.start) \o <<"-">> \o Numeral(t.end)
    ELSE Numeral(t.start)

TokenLists == UNION {[1..n -> Tokens] : n \in 1..MaxTokens}

\* "<name>: <token>, <token>"
SectionText(name, tokens) ==
    name \o <<":", " ">>
         \o Join([i \in 1..Len(tokens) |-> TokenText(tokens[i])], <<",", " ">>)

FileNames == {T_LibRs, T_MainRs}

\* what follows the name in a section that is not as the tool writes it:
\* nothing, no token, a token that is no number, half a range, a range with
\* blanks around the dash, a token with a sign, and a second colon followed
\* by a number or by a text that is no token
OddBodies ==
    {<<>>, <<":", " ">>, <<":", " ", "x">>, <<":", " ", "1", "-">>,
     <<":", " ", "1", "2", " ", "-", " ", "1", "5">>,
     <<":", " ", "+", "3", ",", "4">>,
     <<":", " ", "1", "2", ":", " ", "1", "3">>,
     <<":", " ", "1", "2", "-", "1", "5", ",", " ", "2", "0", ":", " ", "x">>}

SectionsOf(name) ==
    {SectionText(name, t) : t \in TokenLists} \cup {name \o b : b \in OddBodies}

\* the sections of an output: each file at most once, in any order
SectionLists ==
    {<<>>}
    \cup UNION {{<<s>> : s \in SectionsOf(f)} : f \in FileNames}
    \cup UNION {{<<s, t>> : s \in SectionsOf(p[1]), t \in SectionsOf(p[2])} :
                p \in {q \in FileNames \X FileNames : q[1] # q[2]}}

ExampleSection == SectionText(T_LibRs, <<FromTo(12, 15), Single(20)>>)

\* ---- the summary line
\* "<percentage>% coverage, <covered>/<total> lines covered"
SummaryText(pct, covered, total_lines) ==
    pct \o T_Coverage \o covered \o <<"/">> \o total_lines \o T_LinesCovered

\* percentages as the tool writes them (two decimals at most), with the
\* number each one denotes
PctTable ==
    {[text |-> <<"8", "5", ".", "5">>, value |-> F64("finite", FALSE, 855, 0 - 1)],
     [text |-> <<"4", "2", ".", "8", "6">>, value |-> F64("finite", FALSE, 4286, 0 - 2)],
     [text |-> <<"1", "0", "0", ".", "0", "0">>, value |-> F64("finite", FALSE, 1, 2)],
     [text |-> <<"0", ".", "0", "0">>, value |-> Zero],
     [text |-> <<"1", "5", "0">>, value |-> F64("finite", FALSE, 15, 1)]}

\* other texts str::parse::<f64> is given: the not-a-number and the
\* infinity it accepts, an exponent, and texts it rejects
OddPcts ==
    {<<"N", "a", "N">>, <<"i", "n", "f">>, <<"1", "e", "9", "9", "9">>,
     <<"-", "0">>, <<>>, <<"8", "5", " ">>, <<"8", "5", ",", "5">>}

CountPairs == {<<171, 200>>, <<3, 7>>, <<0, 0>>, <<300, 200>>, <<200, 200>>}

OddCounts ==
    {<<<<"x">>, <<"7">>>>, <<<<"3">>, <<>>>>, <<<<"-", "3">>, <<"7">>>>,
     <<<<"+", "3">>, <<"7">>>>}

Summaries ==
    {SummaryText(p, Numeral(c[1]), Numeral(c[2])) :
        p \in {q.text : q \in PctTable} \cup OddPcts, c \in CountPairs}
    \cup {SummaryText(<<"8", "5", ".", "5">>, c[1], c[2]) : c \in OddCounts}
    \cup {<<"8", "5", ".", "5">> \o T_Coverage,
          <<"8", "5", ".", "5", "%">>,
          <<"8", "5", ".", "5", "%", ",", " ", "1", "7", "1">>}

ExampleSummary ==
    SummaryText(<<"8", "5", ".", "5">>, Numeral(171), Numeral(200))

\* ---- the whole output of the tool
RECURSIVE SectionLines(_)
SectionLines(sections) ==
    IF sections = <<>> THEN <<>>
    ELSE <<"|", "|", " ">> \o Head(sections) \o <<"\n">> \o SectionLines(Tail(sections))

Output(sections, summary) ==
    T_Log \o T_UncoveredHeader \o SectionLines(sections) \o T_TestedHeader \o summary

\* outputs of another make: nothing, one line of log, the uncovered lines
\* without the tested lines, and the uncovered lines followed at once by a
\* summary section that names the total lines
OddOutputs ==
    {<<>>, T_Log, T_Log \o T_UncoveredHeader,
     T_Log \o T_UncoveredHeader \o SectionLines(<<ExampleSection>>) \o ExampleSummary,
     T_Log \o T_UncoveredHeader \o SectionLines(<<ExampleSection>>)
           \o <<"|", "|", " ">> \o ExampleSummary \o <<" ", "o", "f", " ">> \o L_TotalLines}

TarpaulinTexts ==
    {Output(s, ExampleSummary) : s \in SectionLists}
    \cup {Output(<<ExampleSection>>, s) : s \in Summaries}
    \cup OddOutputs

IdleOthersCov == IdleDeps /\ IdleTarget /\ IdleSloc /\ IdleReport /\ IdleMain

InitCov ==
    /\ IdleOthersCov
    /\ tarpaulin \in {[tag |-> "Err", text |-> <<>>]}
                     \cup {[tag |-> "Ok", text |-> t] : t \in TarpaulinTexts}
    /\ cpc = "start"
    /\ parsed_output = <<>>
    /\ uncovered = <<>>
    /\ total = <<>>
    /\ total_cov = NoCoverage
    /\ files_cov = NoFiles
    /\ code_coverage = NoCoverage

\* if let Ok(tarpaulin_output) = execute_command_return(..) {..} else { Err(..) }
RunTarpaulin ==
    /\ cpc = "start"
    /\ IF tarpaulin.tag = "Ok"
       THEN cpc' = "split" /\ UNCHANGED code_coverage
       ELSE cpc' = "done" /\ code_coverage' = ErrCoverage
    /\ UNCHANGED <<tarpaulin, parsed_output, uncovered, total, total_cov, files_cov>>
    /\ UNCHANGED notCovVars

\* parse_tarpaulin_output, position(|x| x.contains("Total Lines")).unwrap(),
\* the slice before that index and the last element
ParseOutput ==
    /\ cpc = "split"
    /\ LET out == parse_tarpaulin_output(tarpaulin.text)
           hits == {i \in 1..Len(out.v) : Contains(out.v[i], L_TotalLines)}
       IN  IF ~out.ok \/ hits = {}
           THEN /\ cpc' = "done"
                /\ code_coverage' = PanickedCoverage
                /\ UNCHANGED <<parsed_output, uncovered, total>>
           ELSE /\ cpc' = "total"
                /\ parsed_output' = out.v
                /\ uncovered' = SubSeq(out.v, 1, Min(hits) - 1)
                /\ total' = out.v[Len(out.v)]
                /\ UNCHANGED code_coverage
    /\ UNCHANGED <<tarpaulin, total_cov, files_cov>>
    /\ UNCHANGED notCovVars

\* let mut code_coverage = parse_total_coverage_data(total);
ParseTotal ==
    /\ cpc = "total"
    /\ total_cov' = parse_total_coverage_data(total)
    /\ code_coverage' = total_cov'
    /\ cpc' = IF total_cov'.tag = "Ok" THEN "files" ELSE "done"
    /\ UNCHANGED <<tarpaulin, parsed_output, uncovered, total, files_cov>>
    /\ UNCHANGED notCovVars

\* code_coverage.file_coverage = parse_each_file_uncovered_lines(uncovered);
\* Ok(code_coverage)
ParseFiles ==
    /\ cpc = "files"
    /\ LET files == parse_each_file_uncovered_lines(uncovered) IN
       /\ files_cov' = [tag |-> IF files.ok THEN "Ok" ELSE "Panic", v |-> files.v]
       /\ code_coverage' = IF files.ok
                           THEN [code_coverage EXCEPT !.file_coverage = files.v]
                           ELSE PanickedCoverage
    /\ cpc' = "done"
    /\ UNCHANGED <<tarpaulin, parsed_output, uncovered, total, total_cov>>
    /\ UNCHANGED notCovVars

search_code_coverage_json ==
    \/ RunTarpaulin
    \/ ParseOutput
    \/ ParseTotal
    \/ ParseFiles

NextCov == search_code_coverage_json

SpecCov == InitCov /\ [][NextCov]_vars

(***************************************************************************)
(* Properties of the coverage parser                                       *)
(***************************************************************************)
\* the numbers of a set in rising order
Ascending(S) ==
    CHOOSE s \in [1..Cardinality(S) -> S] :
        \A i, j \in 1..Cardinality(S) : i < j => s[i] < s[j]

RECURSIVE ExpandAll(_)
\* every integer from start to end of each token, token after token
ExpandAll(tokens) ==
    IF tokens = <<>> THEN <<>>
    ELSE Ascending({n \in 0..Head(tokens).end : n >= Head(tokens).start})
         \o ExpandAll(Tail(tokens))

\* C13: when every section is a file name, a colon and a comma-separated
\* list of single integers and start-end ranges, the call returns one
\* FileCoverage for each section, in order, named by the text before the
\* colon, whose uncovered lines are every integer from start to end of each
\* token, in token order; "src/lib.rs: 12-15, 20" gives [12,13,14,15,20].
C13_RangesExpandInTokenOrder ==
    (/\ files_cov.tag # "None"
     /\ \A i \in 1..Len(uncovered) :
          \E f \in FileNames, tl \in TokenLists : uncovered[i] = SectionText(f, tl)) =>
        /\ files_cov.tag = "Ok"
        /\ Len(files_cov.v) = Len(uncovered)
        /\ \A i \in 1..Len(uncovered) :
             \A f \in FileNames, tl \in TokenLists :
                uncovered[i] = SectionText(f, tl) =>
                    files_cov.v[i] = FileCoverage(f, ExpandAll(tl))
        /\ uncovered = <<ExampleSection>> =>
             files_cov.v = <<FileCoverage(T_LibRs, <<12, 13, 14, 15, 20>>)>>

\* The example section and, before it, a section with a single line and a
\* range that runs backwards.
C13_Witness ==
    /\ files_cov.tag = "Ok"
    /\ Len(uncovered) = 2
    /\ uncovered[1] = SectionText(T_MainRs, <<Single(20), FromTo(7, 5)>>)
    /\ uncovered[2] = ExampleSection
    /\ files_cov.v = <<FileCoverage(T_MainRs, <<20>>),
                       FileCoverage(T_LibRs, <<12, 13, 14, 15, 20>>)>>

\* C14: for a summary line "<percentage>% coverage, <covered>/<total> lines
\* covered", parse_total_coverage_data returns the number the percentage
\* text denotes, the covered and the total count in that order, and an
\* empty file-coverage list; "85.5% coverage, 171/200 lines covered" gives
\* 85.5, 171 and 200.
C14_SummaryFields ==
    total_cov.tag # "None" =>
        \A p \in PctTable, c \in CountPairs :
            total = SummaryText(p.text, Numeral(c[1]), Numeral(c[2])) =>
                total_cov = Coverage("Ok", <<>>, p.value, c[1], c[2])

\* The example line has been parsed.
C14_Witness ==
    /\ total = ExampleSummary
    /\ total_cov = Coverage("Ok", <<>>, F64("finite", FALSE, 855, 0 - 1), 171, 200)

\* the value the summary line states before its "%"
StatedPercentage == ParseF64(Split(total, <<"%">>)[1]).v

\* C15: a Coverage the parser returns has no more covered lines than total
\* lines, and its percentage is the one the summary states, not one computed
\* from the two counts.
C15_CoveredAtMostTotal ==
    (cpc = "done" /\ code_coverage.tag = "Ok") =>
        /\ code_coverage.num_covered_lines <= code_coverage.total_lines
        /\ code_coverage.total_coverage_percentage = StatedPercentage

(***************************************************************************)
(* report.rs and serde_json: the Quality value and its JSON text.  The     *)
(* text is held as the tree of its values, every number as the characters  *)
(* written for it; the layout to_string_pretty adds is left out.           *)
(***************************************************************************)
JNull == [t |-> "null"]
JBool(b) == [t |-> "bool", b |-> b]
JNum(text) == [t |-> "num", text |-> text]
JStr(s) == [t |-> "str", s |-> s]
JArr(items) == [t |-> "arr", items |-> items]
JObj(m) == [t |-> "obj", m |-> m]

Zeros(n) == [i \in 1..n |-> "0"]

\* serde_json writes a finite f64 with ryu: the shortest digits, as a plain
\* decimal with a fraction when the decimal point falls within 16 digits or
\* within five zeros after it, with an exponent otherwise
format_finite(x) ==
    LET d == Numeral(x.mant)
        n == Len(d)
        kk == n + x.exp
        sign == IF x.neg THEN <<"-">> ELSE <<>>
    IN  sign \o
        (IF x.mant = 0 THEN <<"0", ".", "0">>
         ELSE IF 0 <= x.exp /\ kk <= 16 THEN d \o Zeros(x.exp) \o <<".", "0">>
         ELSE IF 0 < kk /\ kk <= 16
              THEN SubSeq(d, 1, kk) \o <<".">> \o SubSeq(d, kk + 1, n)
         ELSE IF 0 - 5 < kk /\ kk <= 0
              THEN <<"0", ".">> \o Zeros(0 - kk) \o d
         ELSE <<d[1]>> \o (IF n = 1 THEN <<>> ELSE <<".">> \o SubSeq(d, 2, n))
              \o <<"e">> \o (IF kk - 1 < 0 THEN <<"-">> \o Numeral(1 - kk)
                             ELSE Numeral(kk - 1)))

\* serialize_f64: a number for a finite value, null for NaN and the infinities
serialize_f64(x) == IF x.kind = "finite" THEN JNum(format_finite(x)) ELSE JNull

serialize_uint(n) == JNum(Numeral(n))

\* #[derive(Serialize)] of LanguageInfo, Sloc, FileCoverage, Coverage, Quality
serialize_LanguageInfo(l) ==
    JObj([language |-> JStr(l.language), blanks |-> serialize_uint(l.blanks),
          code |-> serialize_uint(l.code), comments |-> serialize_uint(l.comments)])

serialize_Sloc(s) ==
    JObj([language_info |->
              JArr([i \in 1..Len(s.language_info) |->
                        serialize_LanguageInfo(s.language_info[i])]),
          code |-> serialize_uint(s.code),
          comments |-> serialize_uint(s.comments),
          inaccurate |-> JBool(s.inaccurate)])

serialize_FileCoverage(f) ==
    JObj([name |-> JStr(f.name),
          uncovered_lines |-> JArr([i \in 1..Len(f.uncovered_lines) |->
                                        serialize_uint(f.uncovered_lines[i])])])

serialize_Coverage(c) ==
    JObj([file_coverage |->
              JArr([i \in 1..Len(c.file_coverage) |->
                        serialize_FileCoverage(c.file_coverage[i])]),
          total_coverage_percentage |-> serialize_f64(c.total_coverage_percentage),
          num_covered_lines |-> serialize_uint(c.num_covered_lines),
          total_lines |-> serialize_uint(c.total_lines)])

\* to_string_pretty(&quality_report)
to_string_pretty(q) ==
    JObj([sloc |-> serialize_Sloc(q.sloc), coverage |-> serialize_Coverage(q.coverage)])

\* ---- #[derive(Deserialize)]: the way back
DeErr == [ok |-> FALSE, v |-> 0]

deserialize_uint(j) ==
    IF j.t = "num" /\ j.text # <<>> /\ \A i \in 1..Len(j.text) : j.text[i] \in Digits
    THEN [ok |-> TRUE, v |-> DigitsValue(0, j.text)]
    ELSE DeErr

\* an f64 is read from a JSON number only: a null is an invalid type
deserialize_f64(j) ==
    IF j.t = "num" /\ \A i \in 1..Len(j.text) :
                         j.text[i] \in Digits \cup {".", "-", "+", "e", "E"}
    THEN ParseF64(j.text)
    ELSE DeErr

deserialize_bool(j) == IF j.t = "bool" THEN [ok |-> TRUE, v |-> j.b] ELSE DeErr

deserialize_String(j) == IF j.t = "str" THEN [ok |-> TRUE, v |-> j.s] ELSE DeErr

HasFields(j, names) == j.t = "obj" /\ names \subseteq DOMAIN j.m

deserialize_LanguageInfo(j) ==
    IF ~HasFields(j, {"language", "blanks", "code", "comments"}) THEN DeErr
    ELSE LET language == deserialize_String(j.m.language)
             blanks == deserialize_uint(j.m.blanks)
             code == deserialize_uint(j.m.code)
             comments == deserialize_uint(j.m.comments)
         IN  IF language.ok /\ blanks.ok /\ code.ok /\ comments.ok
             THEN [ok |-> TRUE, v |-> LanguageInfo(language.v, blanks.v, code.v, comments.v)]
             ELSE DeErr

deserialize_Sloc(j) ==
    IF ~HasFields(j, {"language_info", "code", "comments", "inaccurate"}) THEN DeErr
    ELSE IF j.m.language_info.t # "arr" THEN DeErr
    ELSE LET items == j.m.language_info.items
             code == deserialize_uint(j.m.code)
             comments == deserialize_uint(j.m.comments)
             inaccurate == deserialize_bool(j.m.inaccurate)
         IN  IF /\ \A i \in 1..Len(items) : deserialize_LanguageInfo(items[i]).ok
                /\ code.ok /\ comments.ok /\ inaccurate.ok
             THEN [ok |-> TRUE,
                   v |-> [language_info |->
                              [i \in 1..Len(items) |-> deserialize_LanguageInfo(items[i]).v],
                          code |-> code.v, comments |-> comments.v,
                          inaccurate |-> inaccurate.v]]
             ELSE DeErr

deserialize_FileCoverage(j) ==
    IF ~HasFields(j, {"name", "uncovered_lines"}) THEN DeErr
    ELSE IF j.m.uncovered_lines.t # "arr" THEN DeErr
    ELSE LET items == j.m.uncovered_lines.items
             name == deserialize_String(j.m.name)
         IN  IF name.ok /\ \A i \in 1..Len(items) : deserialize_uint(items[i]).ok
             THEN [ok |-> TRUE,
                   v |-> FileCoverage(name.v,
                                      [i \in 1..Len(items) |-> deserialize_uint(items[i]).v])]
             ELSE DeErr

deserialize_Coverage(j) ==
    IF ~HasFields(j, {"file_coverage", "total_coverage_percentage",
                      "num_covered_lines", "total_lines"}) THEN DeErr
    ELSE IF j.m.file_coverage.t # "arr" THEN DeErr
    ELSE LET items == j.m.file_coverage.items
             pct == deserialize_f64(j.m.total_coverage_percentage)
             covered == deserialize_uint(j.m.num_covered_lines)
             lines == deserialize_uint(j.m.total_lines)
         IN  IF /\ \A i \in 1..Len(items) : deserialize_FileCoverage(items[i]).ok
                /\ pct.ok /\ covered.ok /\ lines.ok
             THEN [ok |-> TRUE,
                   v |-> [file_coverage |->
                              [i \in 1..Len(items) |-> deserialize_FileCoverage(items[i]).v],
                          total_coverage_percentage |-> pct.v,
                          num_covered_lines |-> covered.v,
                          total_lines |-> lines.v]]
             ELSE DeErr

\* serde_json::from_str::<Quality>
from_str_Quality(j) ==
    IF ~HasFields(j, {"sloc", "coverage"}) THEN DeErr
    ELSE LET s == deserialize_Sloc(j.m.sloc)
             c == deserialize_Coverage(j.m.coverage)
         IN  IF s.ok /\ c.ok
             THEN [ok |-> TRUE, v |-> [tag |-> "Quality", sloc |-> s.v, coverage |-> c.v]]
             ELSE DeErr

\* report::Quality { sloc, coverage }
Quality(s, c) ==
    [tag |-> "Quality",
     sloc |-> [language_info |-> s.language_info, code |-> s.code,
               comments |-> s.comments, inaccurate |-> s.inaccurate],
     coverage |-> [file_coverage |-> c.file_coverage,
                   total_coverage_percentage |-> c.total_coverage_percentage,
                   num_covered_lines |-> c.num_covered_lines,
                   total_lines |-> c.total_lines]]

(***************************************************************************)
(* quality.rs: generate_quality_report and write_json_to_file              *)
(***************************************************************************)
T_quality_report ==
    <<"q", "u", "a", "l", "i", "t", "y", "_", "r", "e", "p", "o", "r", "t">>

T_example ==
    <<"e", "x", "a", "m", "p", "l", "e">>

L_dotJson ==
    <<".", "j", "s", "o", "n">>


\* the message of the error search_sloc_number_json returns
TokeiNotInstalled == "Error: tokei is not installed."

\* the errors of the operating system the model tells apart
IoErrors == {"NotFound", "PermissionDenied"}

Ok == [tag |-> "Ok", err |-> ""]
Err(e) == [tag |-> "Err", err |-> e]
Panic == [tag |-> "Panic", err |-> ""]

\* a file: whether it is there, and the pieces written to it, in order
NoFile == [exists |-> FALSE, data |-> <<>>]
FileOf(data) == [exists |-> TRUE, data |-> data]

\* a text written whole, and what a write that failed left of it
Whole(content) == [part |-> FALSE, of |-> content]
PartOf(content) == [part |-> TRUE, of |-> content]

\* File::create that opens the file as it is
File_createKeep(files, path) ==
    [files EXCEPT ![path] = FileOf(files[path].data)]

\* File::create: the file is there and empty afterwards
File_create(files, path) == [files EXCEPT ![path] = FileOf(<<>>)]

\* file.write_all(content): the content goes after what the file holds; a
\* write that fails leaves some part of it
write_all(files, path, content, ok) ==
    [files EXCEPT ![path] =
        FileOf(Append(files[path].data,
                      IF ok THEN Whole(content) ELSE PartOf(content)))]

\* the operator `?` that never returns early
question_markNever(res) == TRUE

\* the operator `?`: whether the function goes on after `res`
question_mark(res) == res.tag # "Err"

\* ---- what the calls are run on
Paths == {T_quality_report \o L_dotJson, T_quality_report, T_example \o L_dotJson}

OldReport == Whole(JObj([key |-> JStr(<<"o", "l", "d">>)]))

\* the files before the call: none, or an earlier artifact and its neighbours
InitialFiles ==
    {[p \in Paths |-> NoFile],
     [p \in Paths |-> FileOf(<<OldReport>>)],
     [p \in Paths |-> IF p = T_example \o L_dotJson THEN NoFile ELSE FileOf(<<OldReport>>)]}

\* the example of the documentation of write_json_to_file
ExampleContent == JObj([key |-> JStr(<<"v", "a", "l", "u", "e">>)])

\* what the line counter printed: the example with and without the nested
\* members, no language at all, or a text that is no JSON map
TokeiOutputs ==
    {[tag |-> "Err", json |-> <<>>, err |-> e] : e \in IoErrors}
    \cup {[tag |-> "NotJson", json |-> <<>>, err |-> ""]}
    \cup {[tag |-> "Ok", json |-> j, err |-> ""] :
            j \in {ExampleInput(TRUE), ExampleInput(FALSE), <<>>}}

ReportPcts ==
    {<<"8", "5", ".", "5">>, <<"1", "0", "0", ".", "0", "0">>, <<"0", ".", "0", "0">>,
     <<"4", "2", ".", "8", "6">>, <<"-", "0">>, <<"N", "a", "N">>, <<"i", "n", "f">>,
     <<"1", "e", "9", "9", "9">>, <<"1", "e", "2", "1">>, <<"1", "e", "-", "7">>,
     <<"0", ".", "0", "0", "1", "2">>, <<>>}

\* what the coverage tool printed
ReportTexts ==
    {Output(<<ExampleSection>>, SummaryText(p, Numeral(171), Numeral(200))) : p \in ReportPcts}
    \cup {Output(<<>>, ExampleSummary), T_Log}

TarpaulinOutputs ==
    {[tag |-> "Err", text |-> <<>>]} \cup {[tag |-> "Ok", text |-> t] : t \in ReportTexts}

InitReport ==
    /\ IdleDeps
    /\ IdleTarget
    /\ IdleSloc
    /\ IdleCov
    /\ IdleMain
    /\ fs0 \in InitialFiles
    /\ fs = fs0
    /\ tokei = NoOutput
    /\ quality = NoQuality
    /\ ret = NoRet
    /\ \/ /\ entry = "generate_quality_report"
          /\ rpc = "sloc"
          /\ wname = <<>>
          /\ wcontent = NoQuality
       \/ /\ entry = "write_json_to_file"
          /\ rpc = "create"
          /\ wname \in {T_quality_report, T_example}
          /\ wcontent = ExampleContent

\* search_sloc_number_json up to serde_json::from_str(..).unwrap(): the
\* launch error is dropped for the fixed message, a text that is no JSON map
\* panics
SearchSloc ==
    /\ rpc = "sloc"
    /\ \E o \in TokeiOutputs :
         /\ tokei' = o
         /\ IF o.tag = "Err"
            THEN IF question_mark(Err(TokeiNotInstalled))
                 THEN rpc' = "coverage" /\ UNCHANGED ret
                 ELSE rpc' = "done" /\ ret' = Err(TokeiNotInstalled)
            ELSE IF o.tag = "NotJson"
                 THEN rpc' = "done" /\ ret' = Panic
                 ELSE rpc' = "sloc_parse" /\ UNCHANGED ret
         /\ json' = o.json
         /\ spc' = IF o.tag = "Ok" THEN "start" ELSE spc
    /\ UNCHANGED <<sloc, entry, quality, wname, wcontent, fs0, fs>>
    /\ UNCHANGED <<depVars, tgtVars, covVars, mainVars>>

\* let sloc = search_sloc_number_json(path)?  once parse_sloc_json is back
SlocParsed ==
    /\ rpc = "sloc_parse"
    /\ spc = "done"
    /\ IF sloc.tag = "Panic"
       THEN rpc' = "done" /\ ret' = Panic
       ELSE rpc' = "coverage" /\ UNCHANGED ret
    /\ UNCHANGED <<entry, tokei, quality, wname, wcontent, fs0, fs>>
    /\ UNCHANGED notRepVars

\* search_code_coverage_json is entered
SearchCoverage ==
    /\ rpc = "coverage"
    /\ tarpaulin' \in TarpaulinOutputs
    /\ cpc' = "start"
    /\ rpc' = "coverage_parse"
    /\ UNCHANGED <<parsed_output, uncovered, total, total_cov, files_cov, code_coverage>>
    /\ UNCHANGED <<entry, tokei, quality, wname, wcontent, fs0, fs, ret>>
    /\ UNCHANGED <<depVars, tgtVars, slocVars, mainVars>>

\* let coverage = search_code_coverage_json(path)?;
\* let quality_report = report::Quality { sloc, coverage };
CoverageParsed ==
    /\ rpc = "coverage_parse"
    /\ cpc = "done"
    /\ IF code_coverage.tag = "Panic"
       THEN rpc' = "done" /\ ret' = Panic /\ UNCHANGED quality
       ELSE IF question_mark(code_coverage)
       THEN rpc' = "serialize" /\ quality' = Quality(sloc, code_coverage) /\ UNCHANGED ret
       ELSE rpc' = "done" /\ ret' = Err(TarpaulinNotInstalled) /\ UNCHANGED quality
    /\ UNCHANGED <<entry, tokei, wname, wcontent, fs0, fs>>
    /\ UNCHANGED notRepVars

\* let quality_report = to_string_pretty(&quality_report)?;
\* write_json_to_file("quality_report".to_string(), quality_report)
Serialize ==
    /\ rpc = "serialize"
    /\ wcontent' = to_string_pretty(quality)
    /\ wname' = T_quality_report
    /\ rpc' = "create"
    /\ UNCHANGED <<entry, tokei, quality, fs0, fs, ret>>
    /\ UNCHANGED notRepVars

\* let mut file = File::create(name + ".json")?;
CreateFile ==
    /\ rpc = "create"
    /\ \/ /\ fs' = File_create(fs, wname \o L_dotJson)
          /\ rpc' = "write"
          /\ UNCHANGED ret
       \/ \E e \in IoErrors :
            IF question_mark(Err(e))
            THEN rpc' = "write" /\ UNCHANGED <<fs, ret>>
            ELSE rpc' = "done" /\ ret' = Err(e) /\ UNCHANGED fs
    /\ UNCHANGED <<entry, tokei, quality, wname, wcontent, fs0>>
    /\ UNCHANGED notRepVars

\* file.write_all(content.as_bytes())?; Ok(())
WriteAll ==
    /\ rpc = "write"
    /\ \/ /\ fs' = write_all(fs, wname \o L_dotJson, wcontent, TRUE)
          /\ ret' = Ok
       \/ \E e \in IoErrors :
            /\ fs' = write_all(fs, wname \o L_dotJson, wcontent, FALSE)
            /\ ret' = IF question_mark(Err(e)) THEN Ok ELSE Err(e)
    /\ rpc' = "done"
    /\ UNCHANGED <<entry, tokei, quality, wname, wcontent, fs0>>
    /\ UNCHANGED notRepVars

write_json_to_file == CreateFile \/ WriteAll

generate_quality_report ==
    \/ SearchSloc
    \/ ParseSloc
    \/ SlocParsed
    \/ SearchCoverage
    \/ RunTarpaulin
    \/ ParseOutput
    \/ ParseTotal
    \/ ParseFiles
    \/ CoverageParsed
    \/ Serialize
    \/ write_json_to_file

NextReport == generate_quality_report

SpecReport == InitReport /\ [][NextReport]_vars

(***************************************************************************)
(* Properties of report generation and of the artifact                     *)
(***************************************************************************)
ReportPath == T_quality_report \o L_dotJson

SlocFragmentOk == sloc.tag = "Sloc"
CoverageFragmentOk == code_coverage.tag = "Ok"

\* the caller is handed a report that holds the line-of-code fragment
CallerHasSloc ==
    /\ fs[ReportPath] # fs0[ReportPath]
    /\ fs[ReportPath].data # <<>>
    /\ LET last == fs[ReportPath].data[Len(fs[ReportPath].data)] IN
       /\ ~last.part
       /\ HasFields(last.of, {"sloc"})
       /\ last.of.m.sloc = serialize_Sloc(sloc)

\* C16 as stated: when the coverage fragment fails after the line-of-code
\* fragment was parsed, the caller still gets the line-of-code fragment, in
\* a partial report; and when the line-of-code fragment fails the coverage
\* fragment is still run.
C16_FragmentsIndependent ==
    (entry = "generate_quality_report" /\ rpc = "done") =>
        /\ (SlocFragmentOk /\ ~CoverageFragmentOk) => CallerHasSloc
        /\ ~SlocFragmentOk => cpc = "done"

\* C16, amended: report generation stops at the first fragment that fails.
\* The coverage fragment is run only after the line-of-code fragment has
\* succeeded; when either fragment fails the call ends with an error or a
\* fault, no file is touched and nothing of the other fragment reaches the
\* caller; a file is written only from both fragments together.
C16_FirstFailureEndsTheReport ==
    entry = "generate_quality_report" =>
        /\ cpc # "idle" => SlocFragmentOk
        /\ (rpc = "done" /\ ~(SlocFragmentOk /\ CoverageFragmentOk)) =>
              /\ ret.tag \in {"Err", "Panic"}
              /\ fs = fs0
              /\ wcontent = NoQuality
        /\ fs # fs0 =>
              /\ SlocFragmentOk /\ CoverageFragmentOk
              /\ wcontent = to_string_pretty(Quality(sloc, code_coverage))

\* The line counter's example was parsed, the coverage tool could not be
\* run: the call returned the error and left the earlier artifact as it was.
C16_Witness ==
    /\ entry = "generate_quality_report"
    /\ rpc = "done"
    /\ sloc.tag = "Sloc" /\ Len(sloc.language_info) = 1
    /\ code_coverage.tag = "Err"
    /\ ret = Err(TarpaulinNotInstalled)
    /\ fs0[ReportPath].exists
    /\ fs = fs0

\* C17: once write_json_to_file has returned, either it returned Ok and the
\* file <name>.json holds the content and nothing else, or it returned the
\* I/O error of the create or of the write that failed; no other file
\* changes.
C17_WriteReplacesOrFails ==
    (rpc = "done" /\ wname # <<>>) =>
        LET path == wname \o L_dotJson IN
        /\ ret.tag \in {"Ok", "Err"}
        /\ ret.tag = "Ok" <=> fs[path] = FileOf(<<Whole(wcontent)>>)
        /\ ret.tag = "Err" => ret.err \in IoErrors
        /\ \A p \in Paths \ {path} : fs[p] = fs0[p]

\* An earlier artifact of the same name was there, and the call replaced it.
C17_Witness ==
    /\ entry = "write_json_to_file"
    /\ rpc = "done"
    /\ wname = T_example
    /\ fs0[T_example \o L_dotJson] = FileOf(<<OldReport>>)
    /\ ret = Ok
    /\ fs[T_example \o L_dotJson] = FileOf(<<Whole(ExampleContent)>>)
    /\ fs[ReportPath] = FileOf(<<OldReport>>)

\* C18: the artifact generate_quality_report has written parses back to the
\* Quality it was written from, field for field.
C18_ArtifactRoundTrip ==
    (entry = "generate_quality_report" /\ rpc = "done" /\ ret = Ok) =>
        LET parsed == from_str_Quality(fs[ReportPath].data[1].of) IN
        parsed.ok /\ parsed.v = quality

(***************************************************************************)
(* command.rs: the wrappers, by what they hand back when the process could *)
(* be launched ("ok") or the launch failed with an error of the operating  *)
(* system                                                                  *)
(***************************************************************************)
Launches == {"ok"} \cup IoErrors

\* execute_command: .output().expect("failed to execute process"), returns ()
execute_command(launch) == IF launch \in IoErrors THEN Panic ELSE Ok

\* execute_command_no_path, with the error kept
execute_command_no_path_result(launch) ==
    IF launch \in IoErrors THEN Err(launch) ELSE Ok

\* execute_command_return and execute_command_no_path_return:
\* Err(error) => return Err(error)
execute_command_return(launch) == IF launch \in IoErrors THEN Err(launch) ELSE Ok

execute_command_no_path_return(launch) ==
    IF launch \in IoErrors THEN Err(launch) ELSE Ok

Cmd(wrapper, name, arg) == [wrapper |-> wrapper, name |-> name, arg |-> arg]

\* issues.rs
find_compilation_errors == <<Cmd("execute_command", "cargo", "check")>>
find_formatting_issues == <<Cmd("execute_command", "cargo", "fmt")>>
find_outdated_dependencies == <<Cmd("execute_command", "cargo", "outdated")>>
find_vulnerable_dependencies == <<Cmd("execute_command", "cargo", "audit")>>
find_integer_arithmetics == <<Cmd("execute_command", "cargo", "clippy")>>
find_unwrap_expect == <<Cmd("execute_command", "cargo", "clippy")>>

issues_search ==
    find_compilation_errors \o find_formatting_issues \o find_outdated_dependencies
    \o find_vulnerable_dependencies \o find_integer_arithmetics \o find_unwrap_expect

\* quality.rs
search_sloc_number == <<Cmd("execute_command_no_path", "tokei", "")>>
search_dependency_graph == <<Cmd("execute_command", "cargo", "tree")>>
search_code_coverage == <<Cmd("execute_command", "cargo", "tarpaulin")>>

quality_search == search_sloc_number \o search_dependency_graph \o search_code_coverage

\* do_action: the commands of the menu entries "1" to "11"
MenuCommands ==
    [o \in 1..11 |->
        CASE o = 1 -> find_compilation_errors
          [] o = 2 -> find_formatting_issues
          [] o = 3 -> find_outdated_dependencies
          [] o = 4 -> find_vulnerable_dependencies
          [] o = 5 -> find_integer_arithmetics
          [] o = 6 -> find_unwrap_expect
          [] o = 7 -> search_sloc_number
          [] o = 8 -> search_dependency_graph
          [] o = 9 -> search_code_coverage
          [] o = 10 -> issues_search
          [] OTHER -> quality_search]

\* what the function that issued the command got from the wrapper, and what
\* it handed on: execute_command returns nothing, search_sloc_number prints
\* a message for an Err and returns nothing
RunOf(c, path, launch) ==
    LET returned == IF c.wrapper = "execute_command" THEN execute_command(launch)
                    ELSE execute_command_no_path_result(launch)
    IN  [wrapper |-> c.wrapper, name |-> c.name, arg |-> c.arg, path |-> path,
         launch |-> launch, returned |-> returned,
         got |-> IF returned.tag = "Panic" THEN Panic ELSE Ok]

(***************************************************************************)
(* main.rs: main                                                           *)
(***************************************************************************)
\* main with the dependency prompt left out
main_nextSkipsDependencies(step) ==
    CASE step = "download_repository" -> "do_action"
      [] step = "download_dependencies" -> "do_action"
      [] OTHER -> "returned"

\* main: download_repository(); download_dependencies()?; do_action(path)?
main_next(step) ==
    CASE step = "download_repository" -> "download_dependencies"
      [] step = "download_dependencies" -> "do_action"
      [] OTHER -> "returned"

L_remote == L_https \o <<":", "/", "/", "u", "/", "r">> \o L_dotGit

MainTargets == {<<"r">>, L_remote}

InitMain ==
    /\ IdleSloc
    /\ IdleCov
    /\ IdleReport
    /\ target \in MainTargets
    /\ pathExists \in BOOLEAN
    /\ cwdDirs \in {{}, {<<"r">>}}
    /\ tpc = "start"
    /\ targetPath = [tag |-> "None", val |-> <<>>]
    /\ fsProbes = 0
    /\ dl = <<>>
    /\ workdir = [tag |-> "None", val |-> <<>>]
    /\ pc = "idle"
    /\ idx = 1
    /\ onPath \in {AllItems, AllItems \ {"git"}, AllItems \ {"rustfmt"}}
    /\ dependency_error = <<>>
    /\ install_failed = <<>>
    /\ log = <<>>
    /\ phases = <<>>
    /\ phaseRes = [p \in Range(PhaseOrder) |-> NotRun]
    /\ probedAbsent = {}
    /\ result = NotRun
    /\ mpc = "download_repository"
    /\ declined = FALSE
    /\ queue = <<>>
    /\ lastCmd = NoCmd
    /\ mret = NoRet

\* let path = download_repository(); a panic inside it ends the process
PathReturned ==
    /\ mpc = "download_repository"
    /\ tpc \in {"done", "panicked"}
    /\ IF tpc = "done"
       THEN mpc' = main_next("download_repository") /\ UNCHANGED mret
       ELSE mpc' = "aborted" /\ mret' = Panic
    /\ UNCHANGED <<declined, queue, lastCmd>>
    /\ UNCHANGED notMainVars

\* download_dependencies: one line read from the standard input
ReadAnswer ==
    /\ mpc = "download_dependencies"
    /\ \/ \* "y": dependencies::update_and_install_dependencies() is entered
          /\ mpc' = "update_and_install_dependencies"
          /\ pc' = "update"
          /\ phases' = <<"update">>
          /\ UNCHANGED <<declined, mret>>
       \/ \* "n"
          /\ mpc' = main_next("download_dependencies")
          /\ declined' = TRUE
          /\ UNCHANGED <<pc, phases, mret>>
       \/ \* anything else: "Invalid option.", and the line is read again
          /\ UNCHANGED <<mpc, pc, phases, declined, mret>>
       \/ \* read_line(..)?
          \E e \in IoErrors :
            /\ mpc' = "returned"
            /\ mret' = Err(e)
            /\ UNCHANGED <<pc, phases, declined>>
    /\ UNCHANGED <<queue, lastCmd>>
    /\ UNCHANGED <<idx, onPath, dependency_error, install_failed, log, phaseRes,
                   probedAbsent, result>>
    /\ UNCHANGED <<tgtVars, slocVars, covVars, repVars>>

\* dependencies::update_and_install_dependencies().unwrap(); break
DepsReturned ==
    /\ mpc = "update_and_install_dependencies"
    /\ pc = "done"
    /\ IF result.tag = "Ok"
       THEN mpc' = main_next("download_dependencies") /\ UNCHANGED mret
       ELSE mpc' = "aborted" /\ mret' = Panic
    /\ UNCHANGED <<declined, queue, lastCmd>>
    /\ UNCHANGED notMainVars

\* do_action: one line read from the standard input, entries "1" to "11"
\* and "13", anything else, and a failed read
Choose ==
    /\ mpc = "do_action"
    /\ \/ \E o \in 1..11 :
            /\ queue' = MenuCommands[o]
            /\ mpc' = "tool"
            /\ UNCHANGED mret
       \/ /\ mpc' = "returned"
          /\ mret' = Ok
          /\ UNCHANGED queue
       \/ UNCHANGED <<mpc, queue, mret>>
       \/ \E e \in IoErrors :
            /\ mpc' = "returned"
            /\ mret' = Err(e)
            /\ UNCHANGED queue
    /\ UNCHANGED <<declined, lastCmd>>
    /\ UNCHANGED notMainVars

\* the next command of the chosen entry is run in the working directory
RunCommand ==
    /\ mpc = "tool"
    /\ queue # <<>>
    /\ \E launch \in Launches :
         LET run == RunOf(Head(queue), workdir.val, launch) IN
         /\ lastCmd' = run
         /\ IF run.got.tag = "Panic"
            THEN mpc' = "aborted" /\ mret' = Panic /\ UNCHANGED queue
            ELSE /\ queue' = Tail(queue)
                 /\ mpc' = IF Tail(queue) = <<>> THEN "do_action" ELSE "tool"
                 /\ UNCHANGED mret
    /\ UNCHANGED declined
    /\ UNCHANGED notMainVars

\* do_action, entry "12": quality::generate_quality_report(&path)?, first
\* search_sloc_number_json: the launch error is dropped for a fixed message
ReportTokei ==
    /\ mpc = "do_action"
    /\ \E launch \in Launches, parsed \in BOOLEAN :
         LET returned == execute_command_no_path_return(launch)
             got == IF returned.tag = "Err" THEN Err(TokeiNotInstalled)
                    ELSE IF parsed THEN Ok ELSE Panic
         IN  /\ lastCmd' = [wrapper |-> "execute_command_no_path_return",
                            name |-> "tokei", arg |-> "", path |-> workdir.val,
                            launch |-> launch, returned |-> returned, got |-> got]
             /\ IF got.tag = "Ok"
                THEN mpc' = "report_coverage" /\ UNCHANGED mret
                ELSE IF got.tag = "Panic"
                THEN mpc' = "aborted" /\ mret' = Panic
                ELSE mpc' = "returned" /\ mret' = got
    /\ UNCHANGED <<declined, queue>>
    /\ UNCHANGED notMainVars

\* then search_code_coverage_json, the same way
ReportTarpaulin ==
    /\ mpc = "report_coverage"
    /\ \E launch \in Launches, parsed \in BOOLEAN :
         LET returned == execute_command_return(launch)
             got == IF returned.tag = "Err" THEN Err(TarpaulinNotInstalled)
                    ELSE IF parsed THEN Ok ELSE Panic
         IN  /\ lastCmd' = [wrapper |-> "execute_command_return",
                            name |-> "cargo", arg |-> "tarpaulin", path |-> workdir.val,
                            launch |-> launch, returned |-> returned, got |-> got]
             /\ IF got.tag = "Ok"
                THEN mpc' = "report_write" /\ UNCHANGED mret
                ELSE IF got.tag = "Panic"
                THEN mpc' = "aborted" /\ mret' = Panic
                ELSE mpc' = "returned" /\ mret' = got
    /\ UNCHANGED <<declined, queue>>
    /\ UNCHANGED notMainVars

\* then to_string_pretty and write_json_to_file, whose error `?` hands on
ReportWrite ==
    /\ mpc = "report_write"
    /\ \/ mpc' = "do_action" /\ UNCHANGED mret
       \/ \E e \in IoErrors : mpc' = "returned" /\ mret' = Err(e)
    /\ UNCHANGED <<declined, queue, lastCmd>>
    /\ UNCHANGED notMainVars

do_action ==
    \/ Choose
    \/ RunCommand
    \/ ReportTokei
    \/ ReportTarpaulin
    \/ ReportWrite

download_dependencies ==
    \/ ReadAnswer
    \/ DepsReturned

main ==
    \/ ResolveTarget
    \/ UseLocalPath
    \/ Materialize
    \/ PathReturned
    \/ download_dependencies
    \/ update_and_install_dependencies
    \/ do_action

NextMain == main

SpecMain == InitMain /\ [][NextMain]_vars

(***************************************************************************)
(* Properties of main                                                      *)
(***************************************************************************)
ToolInvoked == lastCmd # NoCmd

DependenciesSettled == declined \/ (pc = "done" /\ result.tag = "Ok")

\* C19: whenever an analysis tool has been invoked, or main is in its menu,
\* download_repository has returned the working directory, the tool was run
\* in it, and the dependency step has been run to its end or declined; the
\* dependency step is entered only after download_repository has returned;
\* and when download_repository panicked, no dependency step and no tool
\* was or will be run.
C19_ResolveThenDependenciesThenTools ==
    /\ (ToolInvoked \/ mpc \in {"do_action", "tool", "report_coverage", "report_write"}) =>
          /\ tpc = "done"
          /\ workdir.tag # "None"
          /\ DependenciesSettled
          /\ ToolInvoked => lastCmd.path = workdir.val
    /\ (pc # "idle" \/ declined) => tpc = "done"
    /\ tpc = "panicked" =>
          /\ pc = "idle" /\ ~declined /\ ~ToolInvoked
          /\ mpc \in {"download_repository", "aborted"}

\* The remote reference was cloned, the dependencies were installed, and
\* then `cargo check` was run in the clone.
C19_Witness ==
    /\ workdir.tag = "Dir"
    /\ Len(dl) = 1 /\ dl[1].cloned
    /\ pc = "done" /\ result.tag = "Ok" /\ ~declined
    /\ lastCmd.name = "cargo" /\ lastCmd.arg = "check"
    /\ lastCmd.path = workdir.val
    /\ mpc = "do_action"

\* C20: a failure to launch an external process reaches the caller of every
\* invocation path as that same I/O error: the wrapper returns it, and the
\* function built on the wrapper hands it on.
C20_LaunchErrorPropagatedUnchanged ==
    lastCmd.launch \in IoErrors =>
        /\ lastCmd.returned = Err(lastCmd.launch)
        /\ lastCmd.got = Err(lastCmd.launch)

(***************************************************************************)
(* Properties of search_code_coverage_json on the sections of the output   *)
(***************************************************************************)
\* the double-pipe-delimited sections of the tool's text, each trimmed
Sections == TrimAll(Split(tarpaulin.text, <<"|", "|">>))

\* the sections after the first two
Remaining == SubSeq(Sections, 3, Len(Sections))

\* which of them contain the marker
MarkerSections == {i \in 1..Len(Remaining) : Contains(Remaining[i], L_TotalLines)}

\* the call has returned Ok(code_coverage)
ParsesSuccessfully == cpc = "done" /\ code_coverage.tag = "Ok"

\* the part of the statement that is about which sections are read
SectionsRead ==
    /\ Len(Sections) >= 2
    /\ parsed_output = Remaining
    /\ MarkerSections # {}
    /\ uncovered = SubSeq(Remaining, 1, Min(MarkerSections) - 1)
    /\ files_cov.tag = "Ok"
    /\ code_coverage.file_coverage = files_cov.v
    /\ Len(code_coverage.file_coverage) = Min(MarkerSections) - 1
    /\ \A i \in 1..Len(code_coverage.file_coverage) :
         code_coverage.file_coverage[i].name = SplitFirst(Remaining[i], ":")
    /\ total = Remaining[Len(Remaining)]
    /\ total_cov.tag = "Ok"
    /\ [code_coverage EXCEPT !.file_coverage = <<>>] = total_cov

\* C21 as stated: the first two sections are discarded, the per-file entries
\* are the remaining sections before the first section that contains "Total
\* Lines", one FileCoverage each and in order, the summary is parsed from the
\* last section, and the section with the marker is the section parsed as
\* the summary whenever the parse succeeds.
C21_MarkerSectionIsTheSummary ==
    ParsesSuccessfully =>
        /\ SectionsRead
        /\ Min(MarkerSections) = Len(Remaining)

\* C21, amended: the first two sections are discarded, the per-file entries
\* are the remaining sections before the first section that contains "Total
\* Lines", one FileCoverage each and in order, and the summary is parsed from
\* the last section, which is the marker section or a later one; in the
\* layout the tool writes the marker section is the "Tested/Total Lines:"
\* header, two sections before the summary.
C21_FilesBeforeMarkerSummaryLast ==
    /\ ParsesSuccessfully =>
        /\ SectionsRead
        /\ Min(MarkerSections) <= Len(Remaining)
    /\ (ParsesSuccessfully /\ \E s \in SectionLists : tarpaulin.text = Output(s, ExampleSummary)) =>
        Min(MarkerSections) = Len(Remaining) - 2

\* Two per-file sections in the tool's layout: the marker section is not the
\* last one, and the parse has succeeded.
C21_Witness ==
    /\ ParsesSuccessfully
    /\ Len(code_coverage.file_coverage) = 2
    /\ tarpaulin.text = Output(<<ExampleSection, SectionText(T_MainRs, <<Single(20)>>)>>,
                               ExampleSummary)
    /\ Min(MarkerSections) < Len(Remaining)
    /\ code_coverage.file_coverage[2] = FileCoverage(T_MainRs, <<20>>)
    /\ code_coverage.num_covered_lines = 171

\* the text after the first c of s
AfterFirst(s, c) == SubSeq(s, Min(IndicesOf(s, c)) + 1, Len(s))

\* the lines of a section whose token list is all that follows its first
\* colon
LinesOfRemainder(section) ==
    flatten_tokens(TrimAll(Split(AfterFirst(section, ":"), <<",">>)))

\* C22: a per-file section is split on its first colon only: the name is the
\* text before the first colon and all that follows that colon is the
\* comma-separated token list, so that a text after a second colon is a part
\* of a token, rejected when it makes no valid token, and never dropped.
C22_WholeRemainderIsTheTokenList ==
    files_cov.tag # "None" =>
        \A i \in 1..Len(uncovered) :
            IndicesOf(uncovered[i], ":") # {} =>
                IF LinesOfRemainder(uncovered[i]).ok
                THEN files_cov.tag = "Ok" =>
                        files_cov.v[i] = FileCoverage(SplitFirst(uncovered[i], ":"),
                                                      LinesOfRemainder(uncovered[i]).v)
                ELSE files_cov.tag = "Panic"

(***************************************************************************)
(* Properties of the dependency phases and the exit status of a command    *)
(***************************************************************************)
\* the commands issued so far that could not be launched
LaunchFailures == {i \in 1..Len(log) : log[i].ev = "exec" /\ log[i].outcome = "io_err"}

\* the items of `list` whose install command could not be launched, in list
\* order
NotLaunched(list) == SetToSeqIn(list, {log[i].item : i \in LaunchFailures})

UpdateFailures(errors) == Cardinality({i \in 1..Len(errors) : errors[i] = UpdateFailed})

C25_ArtifactOnlyAfterAllSucceeded ==
    entry = "generate_quality_report" =>
        /\ fs # fs0 =>
              /\ SlocFragmentOk /\ CoverageFragmentOk
              /\ wcontent = to_string_pretty(Quality(sloc, code_coverage))
              /\ \A p \in Paths \ {ReportPath} : fs[p] = fs0[p]
        /\ (rpc = "done" /\ ~(SlocFragmentOk /\ CoverageFragmentOk)) =>
              /\ ret.tag = "Err"
              /\ fs = fs0

====
